---- MODULE Spec2Model ----
(***************************************************************************)
(* Verification model of the EFIO edge gateway core (python sources under  *)
(* src/): circuit breaker, thread-safe I/O state, CAN manager, Modbus      *)
(* device routes and the CAN->MQTT bridges.                                *)
(*                                                                         *)
(* Each subsystem has its own variables and its own specification          *)
(* (SpecBreaker, SpecState, SpecCan, SpecModbus, SpecBridge, SpecGpio,     *)
(* SpecApi, SpecMqtt, SpecWatchdog, SpecHealth, SpecToggle, SpecShape,     *)
(* SpecFrame, SpecThreads, SpecBridgeLife, SpecDaemon, SpecRetry,          *)
(* SpecLocks, SpecFanout, and SpecCanFixed and SpecBreakerDirect over the  *)
(* CAN manager's and the breaker's variables); a subsystem's actions leave *)
(* the variables of the others unchanged.                                  *)
(***************************************************************************)
EXTENDS Integers, Sequences, FiniteSets, TLC

\* Python None for a timestamp field, and "no thread"
None == -1
NoThread == 0

Min(a, b) == IF a < b THEN a ELSE b

(***************************************************************************)
(* Bounds of the model                                                     *)
(***************************************************************************)
NumThreads == 3        \* concurrent callers of one breaker
MaxThreshold == 2      \* failure_threshold is drawn from 1..MaxThreshold
MaxTimeout == 2        \* breaker timeout is drawn from 1..MaxTimeout (clock ticks)
MaxTime == 4           \* the breaker clock runs from 0 to MaxTime
MaxFailures == 3       \* cap of failure_count

Threads == 1..NumThreads

(***************************************************************************)
(* efio_daemon/resilience.py : CircuitBreaker                              *)
(* A breaker is the record of the fields set by __init__.                  *)
(***************************************************************************)
CLOSED == "closed"
OPEN == "open"
HALF_OPEN == "half_open"
CircuitState == {CLOSED, OPEN, HALF_OPEN}

\* CircuitBreaker.__init__(failure_threshold, timeout)
CircuitBreaker(threshold, tmo) ==
    [failure_threshold |-> threshold, timeout |-> tmo,
     failure_count |-> 0, last_failure_time |-> None, state |-> CLOSED]

\* mutant: the elapsed-time test is dropped
_should_attempt_reset_always(b, now) == b.last_failure_time # None

\* CircuitBreaker._should_attempt_reset, with time.time() = now
_should_attempt_reset(b, now) ==
    IF b.last_failure_time = None THEN FALSE
    ELSE (now - b.last_failure_time) >= b.timeout

\* a success handler that closes the breaker but keeps the count
_on_success_keeps_count(b) == [b EXCEPT !.state = CLOSED]

\* CircuitBreaker._on_success
_on_success(b) == [b EXCEPT !.failure_count = 0, !.state = CLOSED]

\* CircuitBreaker._on_failure, with time.time() = now
_on_failure(b, now) ==
    LET n == b.failure_count + 1
    IN  [b EXCEPT !.failure_count = n,
                  !.last_failure_time = now,
                  !.state = IF n >= b.failure_threshold THEN OPEN ELSE @]

\* CircuitBreaker.reset
reset(b) == [b EXCEPT !.failure_count = 0, !.state = CLOSED,
                      !.last_failure_time = None]

\* The locked prologue of the wrapper returned by CircuitBreaker.call:
\* TRUE when the wrapper raises "Circuit breaker open" instead of calling func.
call_rejects(b, now) == b.state = OPEN /\ ~_should_attempt_reset(b, now)

\* The breaker as the locked prologue leaves it for a caller that proceeds.
call_admit(b, now) ==
    IF b.state = OPEN /\ _should_attempt_reset(b, now)
    THEN [b EXCEPT !.state = HALF_OPEN]
    ELSE b

(***************************************************************************)
(* Breaker under concurrent callers (SpecBreaker)                          *)
(* cb_pc[t]: "idle"    not in a call                                       *)
(*           "guard"   wrapper entered, before the locked prologue         *)
(*           "running" func is executing (prologue passed)                 *)
(*           "raised"  the wrapper raised without calling func             *)
(* cb_probe: the thread whose prologue moved the breaker to half-open and  *)
(*           whose outcome is not recorded yet (history variable)          *)
(* cb_consec: guarded failures since the last success or reset (history)   *)
(***************************************************************************)
VARIABLES cb, cb_now, cb_pc, cb_probe, cb_consec

cbVars == <<cb, cb_now, cb_pc, cb_probe, cb_consec>>

CbInit ==
    /\ \E th \in 1..MaxThreshold, tmo \in 1..MaxTimeout :
           cb = CircuitBreaker(th, tmo)
    /\ cb_now = 0
    /\ cb_pc = [t \in Threads |-> "idle"]
    /\ cb_probe = NoThread
    /\ cb_consec = 0

\* a thread calls the wrapper
CbCall(t) ==
    /\ cb_pc[t] = "idle"
    /\ cb_pc' = [cb_pc EXCEPT ![t] = "guard"]
    /\ UNCHANGED <<cb, cb_now, cb_probe, cb_consec>>

\* wrapper lines 65-73: the prologue under self.lock
CbPrologue(t) ==
    /\ cb_pc[t] = "guard"
    /\ IF call_rejects(cb, cb_now)
       THEN /\ cb_pc' = [cb_pc EXCEPT ![t] = "raised"]
            /\ UNCHANGED <<cb, cb_probe>>
       ELSE /\ cb' = call_admit(cb, cb_now)
            /\ cb_pc' = [cb_pc EXCEPT ![t] = "running"]
            /\ cb_probe' = IF cb.state = OPEN THEN t ELSE cb_probe
    /\ UNCHANGED <<cb_now, cb_consec>>

\* the raised "Circuit breaker open" exception reaches the caller
CbRaised(t) ==
    /\ cb_pc[t] = "raised"
    /\ cb_pc' = [cb_pc EXCEPT ![t] = "idle"]
    /\ UNCHANGED <<cb, cb_now, cb_probe, cb_consec>>

\* wrapper lines 76-78: func returns, _on_success
CbFuncSucceeds(t) ==
    /\ cb_pc[t] = "running"
    /\ cb' = _on_success(cb)
    /\ cb_pc' = [cb_pc EXCEPT ![t] = "idle"]
    /\ cb_probe' = IF cb_probe = t THEN NoThread ELSE cb_probe
    /\ cb_consec' = 0
    /\ UNCHANGED cb_now

\* wrapper lines 79-81: func raises expected_exception, _on_failure
CbFuncFails(t) ==
    /\ cb_pc[t] = "running"
    /\ cb.failure_count < MaxFailures
    /\ cb' = _on_failure(cb, cb_now)
    /\ cb_pc' = [cb_pc EXCEPT ![t] = "idle"]
    /\ cb_probe' = IF cb_probe = t THEN NoThread ELSE cb_probe
    /\ cb_consec' = cb_consec + 1
    /\ UNCHANGED cb_now

\* CircuitBreaker.reset() by an operator
CbReset ==
    /\ cb' = reset(cb)
    /\ cb_probe' = NoThread
    /\ cb_consec' = 0
    /\ UNCHANGED <<cb_now, cb_pc>>

\* time.time() advances
CbTick ==
    /\ cb_now < MaxTime
    /\ cb_now' = cb_now + 1
    /\ UNCHANGED <<cb, cb_pc, cb_probe, cb_consec>>

CbNext ==
    \/ \E t \in Threads : CbCall(t)
    \/ \E t \in Threads : CbPrologue(t)
    \/ \E t \in Threads : CbRaised(t)
    \/ \E t \in Threads : CbFuncSucceeds(t)
    \/ \E t \in Threads : CbFuncFails(t)
    \/ CbReset
    \/ CbTick

(***************************************************************************)
(* Claims about the circuit breaker                                        *)
(***************************************************************************)

\* the prologue step of thread t: it leaves "guard"
CbPrologueStep(t) == cb_pc[t] = "guard" /\ cb_pc'[t] # "guard"

\* C3: a guarded failure that makes failure_threshold consecutive failures
\* leaves the breaker open, and a call whose prologue runs while the breaker
\* is open and before last_failure_time + timeout raises without invoking
\* func and leaves state, failure_count and last_failure_time unchanged.
C3_FailFastWhileOpen ==
    [][ /\ (cb_consec' > cb_consec /\ cb_consec' >= cb.failure_threshold)
              => cb'.state = OPEN
        /\ \A t \in Threads :
              (/\ CbPrologueStep(t)
               /\ cb.state = OPEN
               /\ cb.last_failure_time # None
               /\ cb_now < cb.last_failure_time + cb.timeout)
              => (cb_pc'[t] = "raised" /\ cb' = cb) ]_cbVars

\* C3 witness: a caller was refused by an open breaker that was opened by
\* failure_threshold consecutive failures, before the timeout elapsed.
C3_Witness ==
    \E t \in Threads :
        /\ cb_pc[t] = "raised"
        /\ cb.state = OPEN
        /\ cb_consec >= cb.failure_threshold
        /\ cb_now < cb.last_failure_time + cb.timeout

\* C4: after the timeout of an open breaker exactly one caller moves it to
\* half-open and runs func as the probe; while that probe is running every
\* other caller's prologue raises without invoking func.
C4_SingleProbe ==
    [][ /\ (cb.state = OPEN /\ cb'.state = HALF_OPEN)
              => Cardinality({t \in Threads : CbPrologueStep(t)
                                              /\ cb_pc'[t] = "running"}) = 1
        /\ \A t \in Threads :
              (/\ CbPrologueStep(t)
               /\ cb_probe # NoThread
               /\ cb_probe # t)
              => cb_pc'[t] = "raised" ]_cbVars

\* a step of reset(): it is the only operation that clears last_failure_time
CbResetStep == cb'.last_failure_time = None

\* C5: apart from reset(), the state changes only along closed->open,
\* open->half-open, half-open->closed and half-open->open; in particular
\* never from open directly to closed.
C5_Transitions ==
    [][ \/ cb'.state = cb.state
        \/ CbResetStep
        \/ (cb.state = CLOSED /\ cb'.state = OPEN)
        \/ (cb.state = OPEN /\ cb'.state = HALF_OPEN)
        \/ (cb.state = HALF_OPEN /\ cb'.state = CLOSED)
        \/ (cb.state = HALF_OPEN /\ cb'.state = OPEN) ]_cbVars

\* _on_success() called on the breaker directly, outside call()
CbDirectSuccess ==
    /\ cb' = _on_success(cb)
    /\ cb_consec' = 0
    /\ UNCHANGED <<cb_now, cb_pc, cb_probe>>

\* _on_failure() called on the breaker directly, outside call()
CbDirectFailure ==
    /\ cb.failure_count < MaxFailures
    /\ cb' = _on_failure(cb, cb_now)
    /\ UNCHANGED <<cb_now, cb_pc, cb_probe, cb_consec>>

CbDirectNext == CbNext \/ CbDirectSuccess \/ CbDirectFailure

\* the step in which thread t's func has returned and _on_success runs
CbSuccessStep(t) ==
    cb_pc[t] = "running" /\ cb_pc'[t] = "idle" /\ cb_consec' = 0

\* C36: a success recorded while the breaker is closed leaves failure_count
\* unchanged, and failure_count goes back to zero only by a success recorded
\* in half-open or by reset().
C36_ClosedSuccessKeepsCount ==
    [][ /\ \A t \in Threads :
              (CbSuccessStep(t) /\ cb.state = CLOSED)
                  => cb'.failure_count = cb.failure_count
        /\ (cb.failure_count > 0 /\ cb'.failure_count = 0)
              => \/ CbResetStep
                 \/ \E t \in Threads : CbSuccessStep(t) /\ cb.state = HALF_OPEN
      ]_cbVars

IoThreads == {1, 2}
Kinds == {"di", "do"}
Channels == 0..3
\* arguments tried for set_di_all / set_do_all: valid vectors, a short list
\* and a non-binary element
SetAllArgs == {<<1, 1, 1, 1>>, <<1, 0, 1, 0>>, <<1, 1, 1>>, <<0, 2, 0, 1>>}
\* <<channel, value>> arguments tried for set_di / set_do: valid ones, a bad
\* channel and a non-binary value
SetArgs == {<<0, 1>>, <<4, 1>>, <<0, 2>>}

NoCall == [op |-> "none", kind |-> "di", ch |-> 0, values |-> <<>>]
NoRet == [err |-> FALSE, val |-> <<>>]
ValueError == [err |-> TRUE, val |-> <<>>]

\* mutant: only the first element of the new vector is stored
set_all_assign_partial(old, values) ==
    [i \in 1..4 |-> IF i = 1 THEN values[i] ELSE old[i]]

\* set_di_all / set_do_all: self._di = list(values)
set_all_assign(old, values) == values

\* set_di_all / set_do_all validation: len(values) == 4 and all in (0, 1)
set_all_valid(values) ==
    Len(values) = 4 /\ \A i \in 1..Len(values) : values[i] \in {0, 1}

\* set_di / set_do validation: 0 <= channel < 4 and value in (0, 1)
set_valid(ch, v) == (0 <= ch /\ ch < 4) /\ v \in {0, 1}

VARIABLES io_vec, io_lock, io_pc, io_call, io_ret, io_allowed

ioVars == <<io_vec, io_lock, io_pc, io_call, io_ret, io_allowed>>

IoInit ==
    /\ io_vec = [k \in Kinds |-> <<0, 0, 0, 0>>]
    /\ io_lock = NoThread
    /\ io_pc = [t \in IoThreads |-> "idle"]
    /\ io_call = [t \in IoThreads |-> NoCall]
    /\ io_ret = [t \in IoThreads |-> NoRet]
    /\ io_allowed = [t \in IoThreads |-> {}]

\* a whole-vector get of kind k is in progress in thread t
GetInProgress(t, k) ==
    io_pc[t] \in {"acq", "locked"} /\ io_call[t].op = "get" /\ io_call[t].kind = k

\* history: vector w of kind k has been committed by a complete operation
Commit(k, w) ==
    [t \in IoThreads |-> IF GetInProgress(t, k) THEN io_allowed[t] \cup {w}
                         ELSE io_allowed[t]]

\* thread t calls get_di() / get_do(), set_di(ch, v) / set_do(ch, v) or
\* set_di_all(values) / set_do_all(values)
IoCall(t) ==
    /\ io_pc[t] = "idle"
    /\ \E k \in Kinds :
         \/ /\ io_call' = [io_call EXCEPT ![t] =
                             [op |-> "get", kind |-> k, ch |-> 0, values |-> <<>>]]
            /\ io_allowed' = [io_allowed EXCEPT ![t] = {io_vec[k]}]
         \/ /\ \E a \in SetArgs :
                 io_call' = [io_call EXCEPT ![t] =
                             [op |-> "set", kind |-> k, ch |-> a[1], values |-> <<a[2]>>]]
            /\ UNCHANGED io_allowed
         \/ /\ \E vs \in SetAllArgs :
                 io_call' = [io_call EXCEPT ![t] =
                             [op |-> "set_all", kind |-> k, ch |-> 0, values |-> vs]]
            /\ UNCHANGED io_allowed
    /\ io_pc' = [io_pc EXCEPT ![t] = "acq"]
    /\ io_ret' = [io_ret EXCEPT ![t] = NoRet]
    /\ UNCHANGED <<io_vec, io_lock>>

\* "with self._lock:" - blocks until the lock is free
IoAcquire(t) ==
    /\ io_pc[t] = "acq"
    /\ io_lock = NoThread
    /\ io_lock' = t
    /\ io_pc' = [io_pc EXCEPT ![t] = "locked"]
    /\ UNCHANGED <<io_vec, io_call, io_ret, io_allowed>>

\* get_di() / get_do(): return self._di.copy(), leaving the with-block
get_all(t) ==
    /\ io_call[t].op = "get"
    /\ io_ret' = [io_ret EXCEPT ![t] = [err |-> FALSE, val |-> io_vec[io_call[t].kind]]]
    /\ UNCHANGED <<io_vec, io_allowed>>

\* set_di(channel, value) / set_do(channel, value)
set_channel(t) ==
    /\ io_call[t].op = "set"
    /\ LET k == io_call[t].kind
           c == io_call[t].ch
           v == io_call[t].values[1]
       IN  IF set_valid(c, v)
           THEN /\ io_vec' = [io_vec EXCEPT ![k][c + 1] = v]
                /\ io_allowed' = Commit(k, [io_vec[k] EXCEPT ![c + 1] = v])
                /\ io_ret' = [io_ret EXCEPT ![t] = NoRet]
           ELSE /\ io_ret' = [io_ret EXCEPT ![t] = ValueError]
                /\ UNCHANGED <<io_vec, io_allowed>>

\* set_di_all(values) / set_do_all(values)
set_all(t) ==
    /\ io_call[t].op = "set_all"
    /\ LET k == io_call[t].kind
           vs == io_call[t].values
       IN  IF set_all_valid(vs)
           THEN /\ io_vec' = [io_vec EXCEPT ![k] = set_all_assign(io_vec[k], vs)]
                /\ io_allowed' = Commit(k, vs)
                /\ io_ret' = [io_ret EXCEPT ![t] = NoRet]
           ELSE /\ io_ret' = [io_ret EXCEPT ![t] = ValueError]
                /\ UNCHANGED <<io_vec, io_allowed>>

\* the body of the with-block of the called accessor, and the lock release
IoBody(t) ==
    /\ io_pc[t] = "locked"
    /\ io_lock = t
    /\ \/ get_all(t)
       \/ set_channel(t)
       \/ set_all(t)
    /\ io_lock' = NoThread
    /\ io_pc' = [io_pc EXCEPT ![t] = "ret"]
    /\ UNCHANGED io_call

\* the caller takes the result
IoReturn(t) ==
    /\ io_pc[t] = "ret"
    /\ io_pc' = [io_pc EXCEPT ![t] = "idle"]
    /\ io_call' = [io_call EXCEPT ![t] = NoCall]
    /\ io_ret' = [io_ret EXCEPT ![t] = NoRet]
    /\ io_allowed' = [io_allowed EXCEPT ![t] = {}]
    /\ UNCHANGED <<io_vec, io_lock>>

IoNext ==
    \/ \E t \in IoThreads : IoCall(t)
    \/ \E t \in IoThreads : IoAcquire(t)
    \/ \E t \in IoThreads : IoBody(t)
    \/ \E t \in IoThreads : IoReturn(t)

(***************************************************************************)
(* Claims about the I/O state                                              *)
(***************************************************************************)

\* C2: a whole-vector get_di() / get_do() returns the vector that was stored
\* when it was called or a vector written by a set operation that completed
\* during the call - never a mixture of an old and a new vector.
C2_AtomicSnapshot ==
    \A t \in IoThreads :
        (io_pc[t] = "ret" /\ io_call[t].op = "get")
            => (~io_ret[t].err /\ io_ret[t].val \in io_allowed[t])

\* C2 witness: a get that ran concurrently with a set_di_all / set_do_all of
\* a different vector has returned (the new vector or the pre-image).
C2_Witness ==
    \E t \in IoThreads, w \in IoThreads :
        /\ io_pc[t] = "ret" /\ io_call[t].op = "get"
        /\ io_call[w].op = "set_all" /\ io_call[w].kind = io_call[t].kind
        /\ io_pc[w] = "ret" /\ ~io_ret[w].err
        /\ Cardinality(io_allowed[t]) = 2
        /\ io_call[w].values \in io_allowed[t]
        /\ io_ret[t].val \in {<<1, 0, 1, 0>>, <<1, 1, 1, 1>>}


(***************************************************************************)
(* efio_daemon/can_manager.py : CANDevice, CANManager                      *)
(* Times are clock readings (time.time() and datetime.now() read the same  *)
(* clock); one tick stands for the liveness check interval.  Left out:     *)
(* last_seen (set and cleared together with last_rx_time), the per-device  *)
(* breakers (only written by the manager) and the health registry entry.   *)
(***************************************************************************)
CanMaxTime == 4        \* the CAN clock runs from 0 to CanMaxTime
MaxCanThreshold == 2   \* timeout_threshold is drawn from 1..MaxCanThreshold
MaxRx == 2             \* cap of stats['rx_total'] (frames between two resets)
MaxLog == 1            \* message_log is a deque(maxlen=1000); capacity in the model
max_errors == 3        \* _rx_loop: max_errors (10 in the source), scaled

Devs == {"d1", "d2"}
CanIds == {1, 2}

\* CANDevice.__init__ with the can_id, enabled and timeout_threshold given
CANDevice(id, en, thr) ==
    [can_id |-> id, enabled |-> en, rx_count |-> 0, last_rx_time |-> None,
     timeout_threshold |-> thr, timeout_logged |-> FALSE]

\* CANDevice.is_alive, with time.time() = now
is_alive(dev, now) ==
    IF dev.last_rx_time = None THEN FALSE
    ELSE (now - dev.last_rx_time) < dev.timeout_threshold

VARIABLES can_now, can_dev, can_stats, can_log, can_connected,
          can_running, can_rx_alive, can_lv_alive, can_errors,
          can_counted, can_lapsed

canVars == <<can_now, can_dev, can_stats, can_log, can_connected,
             can_running, can_rx_alive, can_lv_alive, can_errors,
             can_counted, can_lapsed>>

\* CANManager.__init__ followed by add_device for each configured device and
\* a successful connect()
CanInit ==
    /\ can_now = 0
    /\ \E id2 \in CanIds, en2 \in BOOLEAN, thr \in 1..MaxCanThreshold :
           can_dev = [d \in Devs |-> IF d = "d1" THEN CANDevice(1, TRUE, thr)
                                     ELSE CANDevice(id2, en2, 1)]
    /\ can_stats = [rx_total |-> 0, device_timeouts |-> 0, auto_cleanups |-> 0]
    /\ can_log = <<>>
    /\ can_connected = TRUE
    /\ can_running = TRUE
    /\ can_rx_alive = TRUE
    /\ can_lv_alive = TRUE
    /\ can_errors = 0
    /\ can_counted = [d \in Devs |-> 0]
    /\ can_lapsed = [d \in Devs |-> FALSE]

\* deque(maxlen).append
log_append(log, e) ==
    IF Len(log) < MaxLog THEN Append(log, e) ELSE Append(Tail(log), e)

\* history: per device, the number of device_timeouts increments made for it
\* in the current not-alive interval (counted up to 2), and whether that interval began by a
\* lapse of an alive device
Counted(devs2, now2, inc) ==
    [d \in Devs |-> IF is_alive(devs2[d], now2) THEN 0
                    ELSE Min(can_counted[d] + (IF d \in inc THEN 1 ELSE 0), 2)]
Lapsed(devs2, now2) ==
    [d \in Devs |-> IF is_alive(devs2[d], now2) THEN FALSE
                    ELSE IF is_alive(can_dev[d], can_now) THEN TRUE
                    ELSE can_lapsed[d]]
History(devs2, now2, inc) ==
    /\ can_counted' = Counted(devs2, now2, inc)
    /\ can_lapsed' = Lapsed(devs2, now2)

\* time.time() advances
CanTick ==
    /\ can_now < CanMaxTime
    /\ can_now' = can_now + 1
    /\ History(can_dev, can_now + 1, {})
    /\ UNCHANGED <<can_dev, can_stats, can_log, can_connected,
                   can_running, can_rx_alive, can_lv_alive, can_errors>>

\* _handle_rx_message: the device loop (lines 436-445) for a frame with
\* CAN id c handled at current_time
rx_update_devices(devs, c, current_time) ==
    [d \in Devs |->
        IF devs[d].can_id = c /\ devs[d].enabled
        THEN [devs[d] EXCEPT !.rx_count = @ + 1, !.last_rx_time = current_time]
        ELSE devs[d]]

\* _rx_loop reads a frame with CAN id c and _handle_rx_message handles it.
\* current_time is read first (line 417); the log entry's timestamp is read
\* from the clock afterwards (line 424), when the clock may have advanced.
CanHandleRx(c) ==
    /\ can_rx_alive /\ can_running /\ can_connected
    /\ can_stats.rx_total < MaxRx
    /\ \E ts \in {can_now, can_now + 1} :
        /\ ts <= CanMaxTime
        /\ can_now' = ts
        /\ can_stats' = [can_stats EXCEPT !.rx_total = @ + 1]
        /\ can_log' = log_append(can_log, [can_id |-> c, timestamp |-> ts])
        /\ can_dev' = rx_update_devices(can_dev, c, can_now)
        /\ History(rx_update_devices(can_dev, c, can_now), ts, {})
    /\ can_errors' = 0
    /\ UNCHANGED <<can_connected, can_running, can_rx_alive, can_lv_alive>>

\* disconnect() as far as it gets when called from thread "caller":
\* joining the calling thread itself raises RuntimeError, which leaves
\* disconnect() after running = False.
\* Result: <<connected, running, completed>>
disconnect_result(caller) ==
    IF ~can_connected THEN <<can_connected, can_running, TRUE>>
    ELSE IF caller \in {"rx", "liveness"} THEN <<can_connected, FALSE, FALSE>>
    ELSE <<FALSE, FALSE, TRUE>>

\* _cleanup_on_hardware_failure(reason) called from thread "caller"
Cleanup(caller) ==
    LET cleared == [d \in Devs |-> [can_dev[d] EXCEPT !.last_rx_time = None]]
        r == disconnect_result(caller)
    IN  /\ can_dev' = cleared
        /\ can_connected' = r[1]
        /\ can_running' = r[2]
        /\ can_stats' = IF r[3] THEN [can_stats EXCEPT !.auto_cleanups = Min(@ + 1, 1)]
                        ELSE can_stats
        /\ History(cleared, can_now, {})

\* _rx_loop: the read raises; after max_errors consecutive errors the loop
\* calls the cleanup and ends
CanRxError ==
    /\ can_rx_alive /\ can_running /\ can_connected
    /\ IF can_errors + 1 >= max_errors
       THEN /\ Cleanup("rx")
            /\ can_rx_alive' = FALSE
            /\ can_errors' = 0
       ELSE /\ can_errors' = can_errors + 1
            /\ UNCHANGED <<can_dev, can_connected, can_running, can_stats,
                           can_rx_alive, can_counted, can_lapsed>>
    /\ UNCHANGED <<can_now, can_log, can_lv_alive>>

\* a loop thread sees running = False at its while test and ends
CanRxExit ==
    /\ can_rx_alive /\ ~can_running
    /\ can_rx_alive' = FALSE
    /\ can_errors' = 0
    /\ UNCHANGED <<can_now, can_dev, can_stats, can_log, can_connected,
                   can_running, can_lv_alive, can_counted, can_lapsed>>

CanLivenessExit ==
    /\ can_lv_alive /\ ~can_running
    /\ can_lv_alive' = FALSE
    /\ UNCHANGED <<can_now, can_dev, can_stats, can_log, can_connected,
                   can_running, can_rx_alive, can_errors, can_counted,
                   can_lapsed>>

\* _liveness_loop lines 283-296 with _handle_device_timeout line 322: the
\* device is found timed out and the timeout was not logged yet
timed_out_first(dev, current_time) ==
    /\ dev.enabled
    /\ dev.last_rx_time # None
    /\ (current_time - dev.last_rx_time) > dev.timeout_threshold
    /\ ~dev.timeout_logged

\* _liveness_loop lines 283-296: the device is found timed out
timed_out(dev, current_time) ==
    /\ dev.enabled
    /\ dev.last_rx_time # None
    /\ (current_time - dev.last_rx_time) > dev.timeout_threshold

\* _liveness_loop lines 297-301: the device is found alive
found_alive(dev, current_time) ==
    /\ dev.enabled
    /\ dev.last_rx_time # None
    /\ ~((current_time - dev.last_rx_time) > dev.timeout_threshold)

\* one pass of _liveness_loop: hardware health check, then the device loop
CanLivenessPoll ==
    /\ can_lv_alive /\ can_running
    /\ \/ \* _check_hardware_health() fails: cleanup, break
          /\ Cleanup("liveness")
          /\ can_lv_alive' = FALSE
          /\ UNCHANGED <<can_now, can_log, can_rx_alive, can_errors>>
       \/ \* hardware responds: the device loop under self._lock
          /\ LET first == {d \in Devs : timed_out_first(can_dev[d], can_now)}
                 late == {d \in Devs : timed_out(can_dev[d], can_now)}
                 polled == [d \in Devs |->
                     IF d \in late THEN [can_dev[d] EXCEPT !.timeout_logged = TRUE]
                     ELSE IF found_alive(can_dev[d], can_now)
                     THEN [can_dev[d] EXCEPT !.timeout_logged = FALSE]
                     ELSE can_dev[d]]
             IN  /\ can_dev' = polled
                 /\ can_stats' = [can_stats EXCEPT
                                    !.device_timeouts = @ + Cardinality(first)]
                 /\ History(polled, can_now, first)
          /\ UNCHANGED <<can_now, can_log, can_connected, can_running,
                         can_rx_alive, can_lv_alive, can_errors>>

\* a reset that also forgets when each device was last heard
CanResetStatisticsForgetsRx ==
    /\ can_stats' = [rx_total |-> 0, device_timeouts |-> 0, auto_cleanups |-> 0]
    /\ can_dev' = [d \in Devs |-> [can_dev[d] EXCEPT !.rx_count = 0,
                                                      !.timeout_logged = FALSE,
                                                      !.last_rx_time = None]]
    /\ UNCHANGED <<can_now, can_log, can_connected, can_running,
                   can_rx_alive, can_lv_alive, can_errors,
                   can_counted, can_lapsed>>

\* reset_statistics()
CanResetStatistics ==
    /\ can_stats' = [rx_total |-> 0, device_timeouts |-> 0, auto_cleanups |-> 0]
    /\ can_dev' = [d \in Devs |-> [can_dev[d] EXCEPT !.rx_count = 0,
                                                      !.timeout_logged = FALSE]]
    /\ UNCHANGED <<can_now, can_log, can_connected, can_running,
                   can_rx_alive, can_lv_alive, can_errors,
                   can_counted, can_lapsed>>

\* send_message() fails and the hardware probe fails too: cleanup from the
\* calling API thread
CanTxFailure ==
    /\ can_connected
    /\ Cleanup("api")
    /\ UNCHANGED <<can_now, can_log, can_rx_alive, can_lv_alive,
                   can_errors>>

\* disconnect() called through the API
CanDisconnect ==
    /\ can_connected
    /\ can_running' = FALSE
    /\ can_connected' = FALSE
    /\ UNCHANGED <<can_now, can_dev, can_stats, can_log, can_rx_alive,
                   can_lv_alive, can_errors, can_counted, can_lapsed>>

\* connect() succeeds: _start_rx_thread sets running only when it starts a
\* new RX thread; _start_liveness_thread starts one unless one is alive
CanConnect ==
    /\ ~can_connected
    /\ can_connected' = TRUE
    /\ can_running' = IF can_rx_alive THEN can_running ELSE TRUE
    /\ can_rx_alive' = TRUE
    /\ can_lv_alive' = TRUE
    /\ UNCHANGED <<can_now, can_dev, can_stats, can_log, can_errors,
                   can_counted, can_lapsed>>

CanNext ==
    \/ CanTick
    \/ \E c \in CanIds : CanHandleRx(c)
    \/ CanRxError
    \/ CanRxExit
    \/ CanLivenessExit
    \/ CanLivenessPoll
    \/ CanResetStatistics
    \/ CanTxFailure
    \/ CanDisconnect
    \/ CanConnect

(***************************************************************************)
(* Claims about the CAN manager                                            *)
(***************************************************************************)

\* C6: for every enabled device the device_timeouts counter is increased at
\* most once in a maximal interval in which the device is not alive; it is
\* not increased again for that device until the device has been alive again.
C6_TimeoutCountedOnce ==
    \A d \in Devs : can_dev[d].enabled => can_counted[d] <= 1

\* a step that handles one RX frame (the only step that increases rx_total)
CanRxStep == can_stats'.rx_total = can_stats.rx_total + 1

\* C7: handling one RX frame with CAN id C increases rx_count by exactly 1
\* and sets last_rx_time to a value >= the frame's timestamp for every enabled
\* device with can_id C, and leaves rx_count and last_rx_time of every other
\* device unchanged.
C7_RxUpdatesDevices ==
    [][ CanRxStep =>
          LET f == can_log'[Len(can_log')]
          IN  \A d \in Devs :
                IF can_dev[d].can_id = f.can_id /\ can_dev[d].enabled
                THEN /\ can_dev'[d].rx_count = can_dev[d].rx_count + 1
                     /\ can_dev'[d].last_rx_time # None
                     /\ can_dev'[d].last_rx_time >= f.timestamp
                ELSE /\ can_dev'[d].rx_count = can_dev[d].rx_count
                     /\ can_dev'[d].last_rx_time = can_dev[d].last_rx_time ]_canVars

\* a step in which a loop thread leaves its loop through the break that
\* follows _cleanup_on_hardware_failure (running was still set)
CanCleanupStep ==
    can_running /\ \/ (can_rx_alive /\ ~can_rx_alive')
                   \/ (can_lv_alive /\ ~can_lv_alive')

\* C21: when the RX loop has seen max_errors consecutive read errors, or the
\* hardware-health probe of the liveness loop fails, the cleanup completes:
\* the manager ends with connected = false, every device's last_rx_time is
\* cleared and the cleanup is counted.
C21_CleanupCompletes ==
    [][ CanCleanupStep
           => /\ ~can_connected'
              /\ \A d \in Devs : can_dev'[d].last_rx_time = None
              /\ can_stats'.auto_cleanups >= 1 ]_canVars

\* C34 as stated: a device's last_rx_time, once set, stays set and never
\* decreases, whatever the manager does.
C34_LastRxNeverUnset ==
    [][\A d \in Devs :
          can_dev[d].last_rx_time # None =>
              /\ can_dev'[d].last_rx_time # None
              /\ can_dev'[d].last_rx_time >= can_dev[d].last_rx_time]_canVars

\* C34 amended: a device's last_rx_time, once set, never decreases and stays
\* set over RX frames, liveness polls that find the hardware healthy and
\* statistics resets; it becomes unset only in a hardware cleanup, which
\* clears it for every device and stops the loops.
C34_LastRxUnsetOnlyByCleanup ==
    [][\A d \in Devs :
          can_dev[d].last_rx_time # None =>
              \/ /\ can_dev'[d].last_rx_time # None
                 /\ can_dev'[d].last_rx_time >= can_dev[d].last_rx_time
              \/ /\ ~can_running'
                 /\ \A e \in Devs : can_dev'[e].last_rx_time = None]_canVars

\* a device heard twice, the second time later than the first
C34_Witness ==
    \E d \in Devs :
        /\ can_dev[d].rx_count = 2
        /\ can_dev[d].last_rx_time # None
        /\ can_dev[d].last_rx_time > 0
        /\ can_running

(***************************************************************************)
(* api/modbus_device_routes.py : connections, breakers, pollers, liveness  *)
(* One API request at a time is modelled per device; a request answers by  *)
(* putting its status code in mb_api.  A Modbus transaction (one           *)
(* instrument read/write call) is in flight while its thread is at "hw".   *)
(* Left out: scan_devices, the device CRUD routes and the event log.       *)
(* Devices of one port use separate instruments and share no state in this *)
(* module, so the port's traffic is shown with the threads of one device.  *)
(***************************************************************************)
MbDevs == {"m1"}                \* the devices configured on the serial port
MbTimes == {0, 30, 60}          \* clock readings (seconds)
default_failure_threshold == 3  \* get_breaker(failure_threshold=3)
default_timeout == 30           \* get_breaker(timeout=30)
LIVENESS_MAX_FAILURES == 3
NumRegs == 2                    \* registers configured for polling per device
MbMaxFailures == 4              \* cap of a breaker's failure_count

VARIABLES mb_now, active_connections, polling_active, liveness_active,
          circuit_breakers, mb_api, mb_poll, mb_live, mb_series

mbVars == <<mb_now, active_connections, polling_active, liveness_active,
            circuit_breakers, mb_api, mb_poll, mb_live, mb_series>>

NoRequest == [op |-> "none", pc |-> "idle", code |-> 0]
NoPoller == [alive |-> FALSE, pc |-> "top", reg |-> 0]
NoLiveness == [alive |-> FALSE, pc |-> "top", failures |-> 0]

\* module state after import, with the breaker get_breaker creates on first
\* use for each device
MbInit ==
    /\ mb_now = 0
    /\ active_connections = [d \in MbDevs |-> FALSE]
    /\ polling_active = [d \in MbDevs |-> FALSE]
    /\ liveness_active = [d \in MbDevs |-> FALSE]
    /\ circuit_breakers = [d \in MbDevs |->
           CircuitBreaker(default_failure_threshold, default_timeout)]
    /\ mb_api = [d \in MbDevs |-> NoRequest]
    /\ mb_poll = [d \in MbDevs |-> NoPoller]
    /\ mb_live = [d \in MbDevs |-> NoLiveness]
    /\ mb_series = [d \in MbDevs |-> 0]

get_breaker(d) == circuit_breakers[d]

\* a further failure keeps failure_count within the cap
MayFail(d) == get_breaker(d).failure_count < MbMaxFailures

\* the transactions in flight on the serial port
InFlight ==
    {<<"api", d>> : d \in {x \in MbDevs : mb_api[x].pc = "hw"}}
    \cup {<<"poller", d>> : d \in {x \in MbDevs : mb_poll[x].pc = "hw"}}
    \cup {<<"liveness", d>> : d \in {x \in MbDevs : mb_live[x].pc = "hw"}}

\* the request of device d answers with status code c
Respond(d, o, c) ==
    mb_api' = [mb_api EXCEPT ![d] = [op |-> o, pc |-> "done", code |-> c]]

\* history: the number of read requests of d in a row that failed at the
\* hardware (counted up to the default threshold); connects do not interrupt
\* the row, every other operation on d and the passing of time do
SeriesEnds(d) == mb_series' = [mb_series EXCEPT ![d] = 0]
SeriesGrows(d) ==
    mb_series' = [mb_series EXCEPT ![d] = Min(@ + 1, default_failure_threshold)]

\* time.time() advances
MbTick ==
    /\ \E t \in MbTimes :
          /\ t > mb_now
          /\ \A u \in MbTimes : u > mb_now => t <= u
          /\ mb_now' = t
    /\ mb_series' = [d \in MbDevs |-> 0]
    /\ UNCHANGED <<active_connections, polling_active, liveness_active,
                   circuit_breakers, mb_api, mb_poll, mb_live>>

\* cleanup_connection(device_id) when the device's breaker is b
cleanup_connection(d, b) ==
    /\ active_connections' = [active_connections EXCEPT ![d] = FALSE]
    /\ polling_active' = [polling_active EXCEPT ![d] = FALSE]
    /\ liveness_active' = [liveness_active EXCEPT ![d] = FALSE]
    /\ circuit_breakers' = [circuit_breakers EXCEPT ![d] = reset(b)]

\* POST /connect.  The model keeps one liveness thread per device: a connect
\* is taken when no stopped liveness thread of the device is still running.
connect_device(d) ==
    /\ mb_api[d].pc = "idle"
    /\ ~(mb_live[d].alive /\ ~liveness_active[d])
    /\ IF get_breaker(d).state = OPEN
       THEN /\ Respond(d, "connect", 503)
            /\ SeriesEnds(d)
            /\ UNCHANGED <<active_connections, liveness_active,
                           circuit_breakers, mb_live>>
       ELSE \/ \* _attempt_connect returns an instrument
               /\ circuit_breakers' =
                      [circuit_breakers EXCEPT ![d] = _on_success(@)]
               /\ active_connections' = [active_connections EXCEPT ![d] = TRUE]
               /\ liveness_active' = [liveness_active EXCEPT ![d] = TRUE]
               /\ mb_live' = [mb_live EXCEPT ![d] =
                      IF liveness_active[d] THEN @
                      ELSE [alive |-> TRUE, pc |-> "top", failures |-> 0]]
               /\ Respond(d, "connect", 200)
               /\ UNCHANGED mb_series
            \/ \* _attempt_connect raises after its retries
               /\ MayFail(d)
               /\ circuit_breakers' =
                      [circuit_breakers EXCEPT ![d] = _on_failure(@, mb_now)]
               /\ Respond(d, "connect", 500)
               /\ SeriesEnds(d)
               /\ UNCHANGED <<active_connections, liveness_active, mb_live>>
    /\ UNCHANGED <<mb_now, polling_active, mb_poll>>

\* POST /disconnect
disconnect_device(d) ==
    /\ mb_api[d].pc = "idle"
    /\ IF active_connections[d]
       THEN /\ polling_active' = [polling_active EXCEPT ![d] = FALSE]
            /\ liveness_active' = [liveness_active EXCEPT ![d] = FALSE]
            /\ active_connections' = [active_connections EXCEPT ![d] = FALSE]
            /\ Respond(d, "disconnect", 200)
       ELSE /\ Respond(d, "disconnect", 400)
            /\ UNCHANGED <<polling_active, liveness_active, active_connections>>
    /\ SeriesEnds(d)
    /\ UNCHANGED <<mb_now, circuit_breakers, mb_poll, mb_live>>

\* POST /read up to the hardware call: 503 while the breaker state is open,
\* 400 when not connected, else breaker.call(_do_read) starts the read
read_registers(d) ==
    /\ mb_api[d].pc = "idle"
    /\ IF get_breaker(d).state = OPEN
       THEN Respond(d, "read", 503) /\ SeriesEnds(d)
       ELSE IF ~active_connections[d]
       THEN Respond(d, "read", 400) /\ SeriesEnds(d)
       ELSE /\ mb_api' = [mb_api EXCEPT ![d] =
                             [op |-> "read", pc |-> "hw", code |-> 0]]
            /\ UNCHANGED mb_series
    /\ UNCHANGED <<mb_now, active_connections, polling_active,
                   liveness_active, circuit_breakers, mb_poll, mb_live>>

\* POST /read from the hardware call on: _on_success and 200, or
\* _on_failure, cleanup_connection and 500
read_registers_result(d) ==
    /\ mb_api[d].pc = "hw" /\ mb_api[d].op = "read"
    /\ \/ /\ circuit_breakers' =
                 [circuit_breakers EXCEPT ![d] = _on_success(@)]
          /\ Respond(d, "read", 200)
          /\ SeriesEnds(d)
          /\ UNCHANGED <<active_connections, polling_active, liveness_active>>
       \/ /\ MayFail(d)
          /\ cleanup_connection(d, _on_failure(get_breaker(d), mb_now))
          /\ Respond(d, "read", 500)
          /\ SeriesGrows(d)
    /\ UNCHANGED <<mb_now, mb_poll, mb_live>>

\* POST /write up to the hardware call
write_register(d) ==
    /\ mb_api[d].pc = "idle"
    /\ IF get_breaker(d).state = OPEN
       THEN Respond(d, "write", 503)
       ELSE IF ~active_connections[d]
       THEN Respond(d, "write", 400)
       ELSE mb_api' = [mb_api EXCEPT ![d] =
                          [op |-> "write", pc |-> "hw", code |-> 0]]
    /\ SeriesEnds(d)
    /\ UNCHANGED <<mb_now, active_connections, polling_active,
                   liveness_active, circuit_breakers, mb_poll, mb_live>>

\* POST /write from the hardware call on
write_register_result(d) ==
    /\ mb_api[d].pc = "hw" /\ mb_api[d].op = "write"
    /\ \/ /\ Respond(d, "write", 200)
          /\ UNCHANGED <<active_connections, polling_active, liveness_active,
                         circuit_breakers>>
       \/ /\ MayFail(d)
          /\ cleanup_connection(d, _on_failure(get_breaker(d), mb_now))
          /\ Respond(d, "write", 500)
    /\ SeriesEnds(d)
    /\ UNCHANGED <<mb_now, mb_poll, mb_live>>

\* POST /circuit/reset
reset_device_circuit(d) ==
    /\ mb_api[d].pc = "idle"
    /\ circuit_breakers' = [circuit_breakers EXCEPT ![d] = reset(@)]
    /\ Respond(d, "reset", 200)
    /\ SeriesEnds(d)
    /\ UNCHANGED <<mb_now, active_connections, polling_active,
                   liveness_active, mb_poll, mb_live>>

\* POST /polling/start.  The model keeps one poller thread per device: the
\* request is taken when no stopped poller of the device is still running.
start_polling(d) ==
    /\ mb_api[d].pc = "idle"
    /\ ~(mb_poll[d].alive /\ ~polling_active[d])
    /\ IF ~active_connections[d]
       THEN /\ Respond(d, "start_polling", 400)
            /\ UNCHANGED <<polling_active, mb_poll>>
       ELSE /\ polling_active' = [polling_active EXCEPT ![d] = TRUE]
            /\ mb_poll' = [mb_poll EXCEPT ![d] =
                   IF polling_active[d] THEN @
                   ELSE [alive |-> TRUE, pc |-> "top", reg |-> 0]]
            /\ Respond(d, "start_polling", 200)
    /\ SeriesEnds(d)
    /\ UNCHANGED <<mb_now, active_connections, liveness_active,
                   circuit_breakers, mb_live>>

\* POST /polling/stop
stop_polling(d) ==
    /\ mb_api[d].pc = "idle"
    /\ polling_active' = [polling_active EXCEPT ![d] = FALSE]
    /\ Respond(d, "stop_polling", 200)
    /\ SeriesEnds(d)
    /\ UNCHANGED <<mb_now, active_connections, liveness_active,
                   circuit_breakers, mb_poll, mb_live>>

\* the response has been sent
ApiReturn(d) ==
    /\ mb_api[d].pc = "done"
    /\ mb_api' = [mb_api EXCEPT ![d] = NoRequest]
    /\ UNCHANGED <<mb_now, active_connections, polling_active,
                   liveness_active, circuit_breakers, mb_poll, mb_live,
                   mb_series>>

\* poll_device_registers: the while test; a cycle starts with the first
\* register
poll_loop(d) ==
    /\ mb_poll[d].alive /\ mb_poll[d].pc = "top"
    /\ mb_poll' = [mb_poll EXCEPT ![d] =
           IF polling_active[d] THEN [alive |-> TRUE, pc |-> "hw", reg |-> 1]
           ELSE NoPoller]
    /\ UNCHANGED <<mb_now, active_connections, polling_active,
                   liveness_active, circuit_breakers, mb_api, mb_live,
                   mb_series>>

\* poll_device_registers: the read of one register returns or raises
\* (_on_failure); after the last register of the cycle _on_success is called
poll_register(d) ==
    /\ mb_poll[d].alive /\ mb_poll[d].pc = "hw"
    /\ \E ok \in (IF MayFail(d) THEN BOOLEAN ELSE {TRUE}) :
         LET b == IF ok THEN get_breaker(d)
                  ELSE _on_failure(get_breaker(d), mb_now)
         IN  IF mb_poll[d].reg < NumRegs
             THEN /\ circuit_breakers' = [circuit_breakers EXCEPT ![d] = b]
                  /\ mb_poll' = [mb_poll EXCEPT ![d].reg = @ + 1]
             ELSE /\ circuit_breakers' =
                         [circuit_breakers EXCEPT ![d] = _on_success(b)]
                  /\ mb_poll' = [mb_poll EXCEPT ![d] =
                         [alive |-> TRUE, pc |-> "top", reg |-> 0]]
    /\ SeriesEnds(d)
    /\ UNCHANGED <<mb_now, active_connections, polling_active,
                   liveness_active, mb_api, mb_live>>

\* liveness_check_loop: the while test and the connection test
liveness_loop(d) ==
    /\ mb_live[d].alive /\ mb_live[d].pc = "top"
    /\ mb_live' = [mb_live EXCEPT ![d] =
           IF liveness_active[d] /\ active_connections[d]
           THEN [@ EXCEPT !.pc = "hw"]
           ELSE NoLiveness]
    /\ UNCHANGED <<mb_now, active_connections, polling_active,
                   liveness_active, circuit_breakers, mb_api, mb_poll,
                   mb_series>>

\* liveness_check_loop: the read of register 0 returns or raises
liveness_check(d) ==
    /\ mb_live[d].alive /\ mb_live[d].pc = "hw"
    /\ \/ /\ mb_live' = [mb_live EXCEPT ![d] =
                 [alive |-> TRUE, pc |-> "top", failures |-> 0]]
          /\ UNCHANGED <<active_connections, polling_active, liveness_active,
                         circuit_breakers>>
       \/ /\ MayFail(d)
          /\ IF mb_live[d].failures + 1 >= LIVENESS_MAX_FAILURES
             THEN /\ cleanup_connection(d, _on_failure(get_breaker(d), mb_now))
                  /\ mb_live' = [mb_live EXCEPT ![d] = NoLiveness]
             ELSE /\ circuit_breakers' =
                         [circuit_breakers EXCEPT ![d] = _on_failure(@, mb_now)]
                  /\ mb_live' = [mb_live EXCEPT ![d] =
                         [alive |-> TRUE, pc |-> "top", failures |-> @.failures + 1]]
                  /\ UNCHANGED <<active_connections, polling_active,
                                 liveness_active>>
    /\ SeriesEnds(d)
    /\ UNCHANGED <<mb_now, mb_api, mb_poll>>

MbNext ==
    \/ MbTick
    \/ \E d \in MbDevs :
          \/ connect_device(d)
          \/ disconnect_device(d)
          \/ read_registers(d)
          \/ read_registers_result(d)
          \/ write_register(d)
          \/ write_register_result(d)
          \/ reset_device_circuit(d)
          \/ start_polling(d)
          \/ stop_polling(d)
          \/ ApiReturn(d)
          \/ poll_loop(d)
          \/ poll_register(d)
          \/ liveness_loop(d)
          \/ liveness_check(d)

(***************************************************************************)
(* Claims about the Modbus device routes                                   *)
(***************************************************************************)

\* C1: in any interleaving of the poller threads, the liveness threads and
\* the API read/write requests of the devices connected on the serial port,
\* at most one Modbus transaction is in flight on the port at any time.
C1_OneTransactionPerPort == Cardinality(InFlight) <= 1

\* a read request of d is answered on this step
ReadAnswered(d) ==
    /\ mb_api[d].pc # "done"
    /\ mb_api'[d].pc = "done" /\ mb_api'[d].op = "read"

\* C8: with the default breaker (threshold 3), each of three consecutive read
\* requests that fail at the hardware returns 500, and the read request that
\* follows them is refused with 503 without a hardware call.
C8_FourthReadRefused ==
    [][ \A d \in MbDevs :
          ReadAnswered(d) =>
            /\ (mb_api[d].pc = "hw" /\ mb_api'[d].code # 200)
                  => mb_api'[d].code = 500
            /\ mb_series[d] = default_failure_threshold
                  => (mb_api[d].pc = "idle" /\ mb_api'[d].code = 503) ]_mbVars

\* C9: once the breaker of a connected device is open, a read request issued
\* after the breaker timeout has elapsed is not refused with 503 but admitted
\* as the half-open probe, and when that read succeeds the breaker is closed.
C9_ReadAfterTimeoutAdmitted ==
    [][ \A d \in MbDevs :
          /\ ( /\ read_registers(d)
               /\ active_connections[d]
               /\ get_breaker(d).state = OPEN
               /\ get_breaker(d).last_failure_time # None
               /\ mb_now - get_breaker(d).last_failure_time
                     >= get_breaker(d).timeout )
             => /\ mb_api'[d].pc = "hw"
                /\ circuit_breakers'[d].state = HALF_OPEN
          /\ (ReadAnswered(d) /\ mb_api'[d].code = 200)
             => circuit_breakers'[d].state = CLOSED ]_mbVars

(***************************************************************************)
(* efio_daemon/can_mqtt_bridge.py and efio_daemon/modbus_mqtt_bridge.py    *)
(* Both files define a class CANMQTTBridge.  api/app.py builds its bridge  *)
(* from can_mqtt_bridge.py; br_class says which class the bridge is.       *)
(* One mapping (CAN id 1) is loaded.  Times are in milliseconds.           *)
(***************************************************************************)
MaxFrames == 3                     \* frames delivered to the bridge
BrClasses == {"can_mqtt_bridge", "modbus_mqtt_bridge"}
BrTimes == {1000, 1100, 1200}      \* clock readings
BrIntervals == {0, 100}            \* values of rate_limit_ms, min_interval_ms
BrData == {<<1, 2>>, <<1, 3>>}     \* data bytes of a frame
BrDlc == {1, 2}
NoValue == <<-1>>                  \* last_values.get(mapping_id) is None
NoFrame == [can_id |-> 0, data |-> <<>>, dlc |-> 0]

VARIABLES br_class, br_mapping, br_now, br_running, br_mqtt_connected,
          br_last_values, br_last_publish, br_stats, br_frame, br_frames,
          br_published

brVars == <<br_class, br_mapping, br_now, br_running, br_mqtt_connected,
            br_last_values, br_last_publish, br_stats, br_frame, br_frames,
            br_published>>

\* the hex string of the first dlc data bytes, as the list of those bytes
data_hex(f) == SubSeq(f.data, 1, f.dlc)

\* __init__ and load_mappings with one mapping
BrInit ==
    /\ br_class \in BrClasses
    /\ br_mapping \in [can_id : {1}, enabled : BOOLEAN,
                       publish_on_change : BOOLEAN,
                       min_interval_ms : BrIntervals,
                       rate_limit_ms : BrIntervals]
    /\ br_now \in {t \in BrTimes : \A u \in BrTimes : t <= u}
    /\ br_running = FALSE
    /\ br_mqtt_connected = FALSE
    /\ br_last_values = NoValue
    /\ br_last_publish = 0
    /\ br_stats = [messages_received |-> 0, messages_published |-> 0,
                   messages_dropped |-> 0]
    /\ br_frame = NoFrame
    /\ br_frames = 0
    /\ br_published = NoFrame

\* can_mqtt_bridge.py: _should_publish(mapping, mapping_id)
_should_publish(mapping, last_time, now) ==
    IF mapping.rate_limit_ms <= 0 THEN TRUE
    ELSE (now - last_time) >= mapping.rate_limit_ms

\* modbus_mqtt_bridge.py: _should_publish(mapping, data_hex)
_should_publish_on_change(mapping, hex, last_value, last_time, now) ==
    IF mapping.publish_on_change /\ last_value = hex THEN FALSE
    ELSE IF mapping.min_interval_ms > 0
            /\ (now - last_time) < mapping.min_interval_ms
    THEN FALSE
    ELSE TRUE

\* time.time() advances
BrTick ==
    /\ \E t \in BrTimes :
          /\ t > br_now
          /\ \A u \in BrTimes : u > br_now => t <= u
          /\ br_now' = t
    /\ UNCHANGED <<br_class, br_mapping, br_running, br_mqtt_connected,
                   br_last_values, br_last_publish, br_stats, br_frame,
                   br_frames, br_published>>

\* start(): MQTT is initialised and the bridge subscribes to the CAN manager
BrStart ==
    /\ ~br_running
    /\ br_running' = TRUE
    /\ br_mqtt_connected' = TRUE
    /\ UNCHANGED <<br_class, br_mapping, br_now, br_last_values,
                   br_last_publish, br_stats, br_frame, br_frames,
                   br_published>>

\* stop(): the bridge unsubscribes and disconnects MQTT
BrStop ==
    /\ br_running
    /\ br_running' = FALSE
    /\ br_mqtt_connected' = FALSE
    /\ UNCHANGED <<br_class, br_mapping, br_now, br_last_values,
                   br_last_publish, br_stats, br_frame, br_frames,
                   br_published>>

\* _on_mqtt_disconnect / _on_mqtt_connect while the bridge runs
BrMqttFlip ==
    /\ br_running
    /\ br_mqtt_connected' = ~br_mqtt_connected
    /\ UNCHANGED <<br_class, br_mapping, br_now, br_running, br_last_values,
                   br_last_publish, br_stats, br_frame, br_frames,
                   br_published>>

\* reset_statistics()
BrResetStatistics ==
    /\ br_stats' = [messages_received |-> 0, messages_published |-> 0,
                    messages_dropped |-> 0]
    /\ UNCHANGED <<br_class, br_mapping, br_now, br_running,
                   br_mqtt_connected, br_last_values, br_last_publish,
                   br_frame, br_frames, br_published>>

\* the frame f is handed to the subscribed bridge
Delivered(f) ==
    /\ br_running
    /\ br_frames < MaxFrames
    /\ br_frames' = br_frames + 1
    /\ br_frame' = f

\* can_mqtt_bridge.py: _on_can_message with _process_mapping; the MQTT
\* client's publish returns (ok) or raises
on_can_message(f) ==
    /\ br_class = "can_mqtt_bridge"
    /\ Delivered(f)
    /\ \E ok \in BOOLEAN :
         LET matches == br_mapping.enabled /\ br_mapping.can_id = f.can_id
             pass == _should_publish(br_mapping, br_last_publish, br_now)
             sent == matches /\ pass /\ br_mqtt_connected /\ ok
         IN  /\ br_stats' = [br_stats EXCEPT
                   !.messages_received = @ + 1,
                   !.messages_dropped = IF matches /\ ~pass THEN @ + 1 ELSE @,
                   !.messages_published = IF sent THEN @ + 1 ELSE @]
             /\ br_last_publish' = IF sent THEN br_now ELSE br_last_publish
             /\ br_published' = IF sent THEN f ELSE br_published
    /\ UNCHANGED <<br_class, br_mapping, br_now, br_running,
                   br_mqtt_connected, br_last_values>>

\* modbus_mqtt_bridge.py: _on_can_message with _process_mapping
on_can_message_on_change(f) ==
    /\ br_class = "modbus_mqtt_bridge"
    /\ Delivered(f)
    /\ \E ok \in BOOLEAN :
         LET matches == /\ br_running /\ br_mqtt_connected
                        /\ br_mapping.can_id = f.can_id /\ br_mapping.enabled
             pass == _should_publish_on_change(br_mapping, data_hex(f),
                         br_last_values, br_last_publish, br_now)
             sent == matches /\ pass /\ ok
         IN  /\ br_stats' = [br_stats EXCEPT
                   !.messages_received = IF matches THEN @ + 1 ELSE @,
                   !.messages_published = IF sent THEN @ + 1 ELSE @]
             /\ br_last_values' = IF sent THEN data_hex(f) ELSE br_last_values
             /\ br_last_publish' = IF sent THEN br_now ELSE br_last_publish
             /\ br_published' = IF sent THEN f ELSE br_published
    /\ UNCHANGED <<br_class, br_mapping, br_now, br_running,
                   br_mqtt_connected>>

BrFrames == [can_id : {1, 2}, data : BrData, dlc : BrDlc]

BrNext ==
    \/ BrTick
    \/ BrStart
    \/ BrStop
    \/ BrMqttFlip
    \/ BrResetStatistics
    \/ \E f \in BrFrames : on_can_message(f)
    \/ \E f \in BrFrames : on_can_message_on_change(f)

(***************************************************************************)
(* Claims about the CAN -> MQTT bridge                                     *)
(***************************************************************************)

\* a frame is published for the mapping on this step
BrPublishes == br_published' = br_frame' /\ br_frames' # br_frames
                  /\ (br_stats'.messages_published > br_stats.messages_published)

\* C10: for a mapping with publish_on_change = true, a frame whose data
\* equals the data of the last frame published for the mapping is never
\* published, however much time has passed since that publish (so a run of
\* identical frames yields one publish).
C10_IdenticalFrameNotPublished ==
    [][ (br_mapping.publish_on_change /\ BrPublishes)
           => ~(br_frame'.data = br_published.data
                /\ br_frame'.dlc = br_published.dlc) ]_brVars

\* C11: for a mapping with min_interval_ms > 0, two successful publishes of
\* the mapping are at least min_interval_ms apart; a frame that arrives sooner
\* is dropped and changes neither the mapping's last published value nor its
\* last publish time.
C11_MinIntervalBetweenPublishes ==
    [][ (br_mapping.min_interval_ms > 0 /\ br_frames' # br_frames
            /\ br_published # NoFrame
            /\ br_now - br_last_publish < br_mapping.min_interval_ms)
           => /\ ~BrPublishes
              /\ br_last_values' = br_last_values
              /\ br_last_publish' = br_last_publish
              /\ br_published' = br_published ]_brVars

(***************************************************************************)
(* GPIO front-end: efio_daemon/io_manager.py IOManager (SpecGpio)          *)
(*                                                                         *)
(* One IOManager, the daemon loop reading the inputs pin by pin, API       *)
(* threads writing outputs, and the background re-initialisation thread.   *)
(* gp_vals holds new_vals of the read in progress; a pin whose read raised *)
(* is recorded as PinFailed there and is stored as 0, as the code appends. *)
(* gp_consec counts the hardware DI read attempts that failed in a row     *)
(* (history variable); gp_skipped records that _start_reinit_thread        *)
(* returned early because the running reinit thread was alive (history).   *)
(***************************************************************************)

\* len(INPUT_PINS)
NumPins == 4

\* the literal 5 of "if self._gpio_failure_count >= 5"
gpio_failure_limit == 5

\* CircuitBreaker(failure_threshold=5, timeout=30, name="GPIO")
gpio_failure_threshold == 5
gpio_timeout == 30

\* Clock readings of the GPIO breaker: before and after its timeout.
GpTimes == {0, 30}

\* Cap on _gpio_failure_count and on the history counter.
GpMaxCount == 6

\* Mark of a pin whose read raised, inside gp_vals.
PinFailed == 2

Pins == 1..NumPins

VARIABLES gp_now, gp_simulation, gp_di, gp_failure_count, gp_breaker,
          gp_reinit, gp_reinit_done, gp_pc, gp_vals, gp_consec, gp_skipped

gpVars == <<gp_now, gp_simulation, gp_di, gp_failure_count, gp_breaker,
            gp_reinit, gp_reinit_done, gp_pc, gp_vals, gp_consec, gp_skipped>>

\* IOManager._start_reinit_thread without the is_alive guard.
_start_reinit_thread_unguarded(n) == n + 1

\* IOManager._start_reinit_thread: n reinit threads are alive; the number
\* alive after the call.
_start_reinit_thread(n) == IF n > 0 THEN n ELSE n + 1

\* The value a pin contributes to state["di"]: new_vals.append(0) on failure.
stored(v) == IF v = PinFailed THEN 0 ELSE v

\* IOManager.__init__: simulation comes from the shared state (False unless
\* loaded), _init_hardware succeeds or raises; on failure the constructor
\* enters simulation and starts the reinit thread.
GpInit ==
    /\ gp_now = 0
    /\ gp_di = [p \in Pins |-> 0]
    /\ gp_failure_count = 0
    /\ gp_breaker = CircuitBreaker(gpio_failure_threshold, gpio_timeout)
    /\ \E hw_ok \in BOOLEAN :
          /\ gp_simulation = ~hw_ok
          /\ gp_reinit = IF hw_ok THEN 0 ELSE _start_reinit_thread(0)
    /\ gp_reinit_done = FALSE
    /\ gp_pc = "idle"
    /\ gp_vals = << >>
    /\ gp_consec = 0
    /\ gp_skipped = FALSE

\* time.time() advances
GpTick ==
    /\ \E t \in GpTimes : t > gp_now /\ gp_now' = t
    /\ UNCHANGED <<gp_simulation, gp_di, gp_failure_count, gp_breaker,
                   gp_reinit, gp_reinit_done, gp_pc, gp_vals, gp_consec, gp_skipped>>

\* read_all_inputs up to the first pin: returns state["di"] in simulation,
\* raises when the breaker refuses, otherwise enters _read.
read_all_inputs_begin ==
    /\ gp_pc = "idle"
    /\ ~gp_simulation
    /\ ~call_rejects(gp_breaker, gp_now)
    /\ gp_breaker' = call_admit(gp_breaker, gp_now)
    /\ gp_pc' = "read"
    /\ gp_vals' = << >>
    /\ UNCHANGED <<gp_now, gp_simulation, gp_di, gp_failure_count,
                   gp_reinit, gp_reinit_done, gp_consec, gp_skipped>>

\* One iteration of the loop over INPUT_PINS with req.get_value succeeding.
read_pin_ok ==
    /\ gp_pc = "read"
    /\ Len(gp_vals) < NumPins
    /\ \E val \in {0, 1} : gp_vals' = Append(gp_vals, val)
    /\ gp_consec' = 0
    /\ UNCHANGED <<gp_now, gp_simulation, gp_di, gp_failure_count, gp_breaker,
                   gp_reinit, gp_reinit_done, gp_pc, gp_skipped>>

\* The block under _gpio_lock of a failed read or write.
gpio_failure ==
    /\ gp_failure_count' = gp_failure_count + 1
    /\ IF gp_failure_count + 1 >= gpio_failure_limit
       THEN /\ gp_simulation' = TRUE
            /\ gp_reinit' = _start_reinit_thread(gp_reinit)
            /\ gp_skipped' = (gp_reinit > 0)
       ELSE UNCHANGED <<gp_simulation, gp_reinit, gp_skipped>>

\* One iteration of the loop over INPUT_PINS with req.get_value raising.
read_pin_fails ==
    /\ gp_pc = "read"
    /\ Len(gp_vals) < NumPins
    /\ gp_failure_count < GpMaxCount
    /\ gpio_failure
    /\ gp_vals' = Append(gp_vals, PinFailed)
    /\ gp_consec' = Min(gp_consec + 1, GpMaxCount)
    /\ UNCHANGED <<gp_now, gp_di, gp_breaker, gp_reinit_done, gp_pc>>

\* The end of _read: the counter reset, state["di"] = new_vals, and the
\* breaker recording a success because _read returned.
read_all_inputs_end ==
    /\ gp_pc = "read"
    /\ Len(gp_vals) = NumPins
    /\ gp_failure_count' = 0
    /\ gp_di' = [p \in Pins |-> stored(gp_vals[p])]
    /\ gp_breaker' = _on_success(gp_breaker)
    /\ gp_pc' = "idle"
    /\ UNCHANGED <<gp_now, gp_simulation, gp_reinit, gp_reinit_done, gp_vals,
                   gp_consec, gp_skipped>>

\* write_output with the hardware write succeeding.
write_output_ok ==
    /\ ~gp_simulation
    /\ ~call_rejects(gp_breaker, gp_now)
    /\ gp_breaker' = _on_success(call_admit(gp_breaker, gp_now))
    /\ UNCHANGED <<gp_now, gp_simulation, gp_di, gp_failure_count,
                   gp_reinit, gp_reinit_done, gp_pc, gp_vals, gp_consec, gp_skipped>>

\* write_output with the hardware write raising: counted under _gpio_lock,
\* re-raised into the breaker, swallowed by write_output.
write_output_fails ==
    /\ ~gp_simulation
    /\ ~call_rejects(gp_breaker, gp_now)
    /\ gp_failure_count < GpMaxCount
    /\ gpio_failure
    /\ gp_breaker' = _on_failure(call_admit(gp_breaker, gp_now), gp_now)
    /\ UNCHANGED <<gp_now, gp_di, gp_reinit_done, gp_pc, gp_vals, gp_consec>>

\* reinit_loop: _init_hardware succeeds and clears the simulation flag.
reinit_init_hardware ==
    /\ gp_reinit > 0
    /\ ~gp_reinit_done
    /\ gp_simulation' = FALSE
    /\ gp_reinit_done' = TRUE
    /\ UNCHANGED <<gp_now, gp_di, gp_failure_count, gp_breaker, gp_reinit,
                   gp_pc, gp_vals, gp_consec, gp_skipped>>

\* reinit_loop: the break after a successful _init_hardware; the thread ends.
reinit_exit ==
    /\ gp_reinit > 0
    /\ gp_reinit_done
    /\ gp_reinit' = gp_reinit - 1
    /\ gp_reinit_done' = FALSE
    /\ gp_skipped' = FALSE
    /\ UNCHANGED <<gp_now, gp_simulation, gp_di, gp_failure_count, gp_breaker,
                   gp_pc, gp_vals, gp_consec>>

GpNext ==
    \/ GpTick
    \/ read_all_inputs_begin
    \/ read_pin_ok
    \/ read_pin_fails
    \/ read_all_inputs_end
    \/ write_output_ok
    \/ write_output_fails
    \/ reinit_init_hardware
    \/ reinit_exit

\* C12: when a hardware DI read attempt fails while the front-end is not
\* simulating and it is the fifth failed attempt in a row, the simulation
\* flag is true and a recovery task is running afterwards.
C12_FiveReadFailuresSimulate ==
    [][ (gp_vals' # gp_vals /\ gp_vals' # << >>
            /\ gp_vals'[Len(gp_vals')] = PinFailed
            /\ ~gp_simulation /\ gp_consec' >= 5)
           => (gp_simulation' /\ gp_reinit' > 0) ]_gpVars

\* C13: a DI channel whose read failed keeps the value IOState held for it
\* before the read.
C13_FailedReadKeepsLastValue ==
    [][ (gp_pc = "read" /\ gp_pc' = "idle")
           => \A p \in Pins : gp_vals[p] = PinFailed => gp_di'[p] = gp_di[p] ]_gpVars

\* C14: at most one GPIO recovery task is running.
C14_OneRecoveryTask == gp_reinit <= 1

\* C14 witness: the failure limit is reached a second time while the
\* recovery task started at the first is alive.
C14_Witness ==
    /\ gp_reinit = 1
    /\ gp_skipped
    /\ gp_failure_count > gpio_failure_limit

(***************************************************************************)
(* HTTP DO writes and the MQTT message handler: api/app.py (SpecApi)       *)
(*                                                                         *)
(* SpecApi: one request thread running POST /api/io/do/<ch> step by step,  *)
(* the MQTT network thread running on_mqtt_message, and the broker.  The   *)
(* client subscribes to edgeforce/#, so the broker sends the application's *)
(* own publishes back to it: ap_queue is what the broker still has to      *)
(* deliver.  SpecMqtt: on_mqtt_message on the messages of other clients.   *)
(* A message is its topic split at "/" and its payload text.               *)
(* ap_fb[c]     value of the latest write of channel c whose feedback was  *)
(*              published, None once a newer write of c is requested       *)
(* ap_posted[c] value of the latest completed POST of channel c, None once *)
(*              a newer write of c is requested (history variables)        *)
(* ap_msg       the message on_mqtt_message ran on last; ap_seq flips at   *)
(*              each run of the handler (history variables)                *)
(***************************************************************************)

\* Messages of the application the broker may hold undelivered.
MaxInFlight == 3

\* Channels the modelled clients write through POST.
PostChannels == {0, 1}

\* Texts in the channel position of a topic and in the payload.
ChannelTexts == {"0", "1", "2", "3", "4", "5", "x"}
PayloadTexts == {"0", "1", "2", "on"}

\* str(n) for the integers the application formats
py_str(n) ==
    CASE n = 0 -> "0" [] n = 1 -> "1" [] n = 2 -> "2"
      [] n = 3 -> "3" [] n = 4 -> "4" [] n = 5 -> "5"

\* int(s): ok is FALSE where int raises ValueError
py_int(s) ==
    CASE s = "0" -> [ok |-> TRUE, v |-> 0]
      [] s = "1" -> [ok |-> TRUE, v |-> 1]
      [] s = "2" -> [ok |-> TRUE, v |-> 2]
      [] s = "3" -> [ok |-> TRUE, v |-> 3]
      [] s = "4" -> [ok |-> TRUE, v |-> 4]
      [] s = "5" -> [ok |-> TRUE, v |-> 5]
      [] OTHER -> [ok |-> FALSE, v |-> 0]

\* Messages other clients publish under edgeforce/: state topics, command
\* topics and a system metric.
ForeignMsgs ==
    {[parts |-> <<"edgeforce", "io", k, n>>, payload |-> p] :
        k \in Kinds, n \in ChannelTexts, p \in PayloadTexts}
    \cup {[parts |-> <<"edgeforce", "io", "do", n, "set">>, payload |-> p] :
            n \in {"1", "2", "3", "4"}, p \in {"0", "1"}}
    \cup {[parts |-> <<"edgeforce", "system", "cpu">>, payload |-> "1"]}

VARIABLES ap_di, ap_do, ap_req, ap_queue, ap_fb, ap_posted, ap_msg, ap_seq

apVars == <<ap_di, ap_do, ap_req, ap_queue, ap_fb, ap_posted, ap_msg, ap_seq>>

NoMsg == [parts |-> << >>, payload |-> ""]

NoPost == [pc |-> "idle", ch |-> 0, val |-> 0, hw |-> "none"]

ApInit ==
    /\ ap_di = [c \in Channels |-> 0]
    /\ ap_do = [c \in Channels |-> 0]
    /\ ap_req = NoPost
    /\ ap_queue = << >>
    /\ ap_fb = [c \in PostChannels |-> None]
    /\ ap_posted = [c \in PostChannels |-> None]
    /\ ap_msg = NoMsg
    /\ ap_seq = FALSE

\* ThreadSafeState.set_di / set_do on a vector, called from a handler that
\* catches the ValueError: the vector afterwards.
set_checked(vec, channel, value) ==
    IF set_valid(channel, value) THEN [vec EXCEPT ![channel] = value] ELSE vec

\* on_mqtt_message taking the channel text as the index.
on_mqtt_message_no_offset(m, di, do) ==
    LET parts == m.parts
        same == [di |-> di, do |-> do]
    IN  IF Len(parts) >= 3 /\ parts[1] = "edgeforce" /\ parts[2] = "io"
           /\ Len(parts) = 4
        THEN IF ~py_int(parts[4]).ok THEN same
             ELSE LET channel == py_int(parts[4]).v
                      value == py_int(m.payload)
                  IN  IF ~value.ok THEN same
                      ELSE IF parts[3] = "di" /\ 0 <= channel /\ channel < 4
                           THEN [same EXCEPT !.di = set_checked(di, channel, value.v)]
                      ELSE IF parts[3] = "do" /\ 0 <= channel /\ channel < 4
                           THEN [same EXCEPT !.do = set_checked(do, channel, value.v)]
                      ELSE same
        ELSE same

\* on_mqtt_message: the DI and DO vectors after the handler ran on m.
on_mqtt_message(m, di, do) ==
    LET parts == m.parts
        same == [di |-> di, do |-> do]
    IN  IF Len(parts) >= 3 /\ parts[1] = "edgeforce" /\ parts[2] = "io"
           /\ Len(parts) = 4
        THEN IF ~py_int(parts[4]).ok THEN same
             ELSE LET channel == py_int(parts[4]).v - 1
                      value == py_int(m.payload)
                  IN  IF ~value.ok THEN same
                      ELSE IF parts[3] = "di" /\ 0 <= channel /\ channel < 4
                           THEN [same EXCEPT !.di = set_checked(di, channel, value.v)]
                      ELSE IF parts[3] = "do" /\ 0 <= channel /\ channel < 4
                           THEN [same EXCEPT !.do = set_checked(do, channel, value.v)]
                      ELSE same
        ELSE same

\* GET /api/io
get_io == [di |-> ap_di, do |-> ap_do]

\* POST /api/io/do/<ch> up to state.set_do(ch, new_val)
set_do_store ==
    /\ ap_req.pc = "idle"
    /\ \E ch \in PostChannels, st \in BOOLEAN :
          LET new_val == IF st THEN 1 ELSE 0
          IN  /\ ap_do' = set_checked(ap_do, ch, new_val)
              /\ ap_req' = [pc |-> "stored", ch |-> ch, val |-> new_val, hw |-> "none"]
              /\ ap_fb' = [ap_fb EXCEPT ![ch] = None]
              /\ ap_posted' = [ap_posted EXCEPT ![ch] = None]
    /\ UNCHANGED <<ap_di, ap_queue, ap_msg, ap_seq>>

\* daemon.manager.write_output(ch, new_val): state["do"][ch] = value, then
\* the hardware write, whose failure write_output swallows.
set_do_write ==
    /\ ap_req.pc = "stored"
    /\ ap_do' = set_checked(ap_do, ap_req.ch, ap_req.val)
    /\ \E hw \in {"ok", "failed"} : ap_req' = [ap_req EXCEPT !.pc = "written", !.hw = hw]
    /\ UNCHANGED <<ap_di, ap_queue, ap_fb, ap_posted, ap_msg, ap_seq>>

\* The two mqtt_publish calls: command topic, then feedback topic; nothing
\* is sent while the client is not connected.
set_do_publish ==
    /\ ap_req.pc = "written"
    /\ \E connected \in BOOLEAN :
          IF connected
          THEN /\ Len(ap_queue) + 2 <= MaxInFlight
               /\ ap_queue' = ap_queue \o
                    << [parts |-> <<"edgeforce", "io", "do", py_str(ap_req.ch + 1), "set">>,
                        payload |-> py_str(ap_req.val)],
                       [parts |-> <<"edgeforce", "io", "do", py_str(ap_req.ch + 1)>>,
                        payload |-> py_str(ap_req.val)] >>
               /\ ap_fb' = [ap_fb EXCEPT ![ap_req.ch] = ap_req.val]
          ELSE UNCHANGED <<ap_queue, ap_fb>>
    /\ ap_req' = [ap_req EXCEPT !.pc = "published"]
    /\ UNCHANGED <<ap_di, ap_do, ap_posted, ap_msg, ap_seq>>

\* socketio.emit and the JSON response.
set_do_return ==
    /\ ap_req.pc = "published"
    /\ ap_posted' = [ap_posted EXCEPT ![ap_req.ch] = ap_req.val]
    /\ ap_req' = NoPost
    /\ UNCHANGED <<ap_di, ap_do, ap_queue, ap_fb, ap_msg, ap_seq>>

\* The MQTT network thread runs the handler on message m.
deliver(m) ==
    /\ LET r == on_mqtt_message(m, ap_di, ap_do)
       IN  ap_di' = r.di /\ ap_do' = r.do
    /\ ap_msg' = m
    /\ ap_seq' = ~ap_seq

\* The broker delivers the oldest of the application's own messages.
mqtt_loopback ==
    /\ ap_queue # << >>
    /\ deliver(Head(ap_queue))
    /\ ap_queue' = Tail(ap_queue)
    /\ UNCHANGED <<ap_req, ap_fb, ap_posted>>

\* The broker delivers message m of another client.
mqtt_inbound(m) ==
    /\ deliver(m)
    /\ UNCHANGED <<ap_req, ap_queue, ap_fb, ap_posted>>

ApNext ==
    \/ set_do_store
    \/ set_do_write
    \/ set_do_publish
    \/ set_do_return
    \/ mqtt_loopback

\* The handler alone, on the messages of other clients (SpecMqtt).
MqNext == \E m \in ForeignMsgs : mqtt_inbound(m)

\* C15: once the feedback of the latest write of a channel is published,
\* and so may have been observed by a reader, IOState holds that write's
\* value for the channel until a newer write is requested, whether the
\* hardware write failed or not.
C15_NoOlderValueAfterFeedback ==
    \A c \in PostChannels : ap_fb[c] # None => get_io.do[c] = ap_fb[c]

\* C16: after a POST of channel c with state true has completed, GET
\* /api/io returns do[c] = 1 until a later write of c is requested.
C16_PostThenGet ==
    \A c \in PostChannels : ap_posted[c] = 1 => get_io.do[c] = 1

\* C17: a message on the command topic edgeforce/io/do/{n}/set with n in
\* 1..4 and payload 0 or 1 sets DO channel n-1 to the payload.
C17_CommandTopicSetsOutput ==
    [][ (ap_seq' # ap_seq /\ Len(ap_msg'.parts) = 5
            /\ SubSeq(ap_msg'.parts, 1, 3) = <<"edgeforce", "io", "do">>
            /\ ap_msg'.parts[5] = "set"
            /\ ap_msg'.parts[4] \in {"1", "2", "3", "4"}
            /\ ap_msg'.payload \in {"0", "1"})
           => ap_do'[py_int(ap_msg'.parts[4]).v - 1] = py_int(ap_msg'.payload).v ]_apVars

\* C18: a message on edgeforce/io/di/{n} or edgeforce/io/do/{n} with n in
\* 1..4 and payload 0 or 1 sets channel n-1 of that vector and nothing
\* else; with another n or another payload it leaves both vectors as they
\* were.
C18_StateTopicSetsOneChannel ==
    [][ (ap_seq' # ap_seq /\ Len(ap_msg'.parts) = 4
            /\ SubSeq(ap_msg'.parts, 1, 2) = <<"edgeforce", "io">>
            /\ ap_msg'.parts[3] \in {"di", "do"})
           => LET m == ap_msg'
              IN  IF m.parts[4] \in {"1", "2", "3", "4"} /\ m.payload \in {"0", "1"}
                  THEN LET c == py_int(m.parts[4]).v - 1
                           v == py_int(m.payload).v
                       IN  IF m.parts[3] = "di"
                           THEN ap_di' = [ap_di EXCEPT ![c] = v] /\ ap_do' = ap_do
                           ELSE ap_do' = [ap_do EXCEPT ![c] = v] /\ ap_di' = ap_di
                  ELSE ap_di' = ap_di /\ ap_do' = ap_do ]_apVars

\* C18 witness: messages have set DI channel 3 and DO channel 0 and
\* nothing else.
C18_Witness ==
    /\ ap_di = [c \in Channels |-> IF c = 3 THEN 1 ELSE 0]
    /\ ap_do = [c \in Channels |-> IF c = 0 THEN 1 ELSE 0]
    /\ ap_msg = [parts |-> <<"edgeforce", "io", "do", "5">>, payload |-> "1"]

(***************************************************************************)
(* Software watchdog: efio_daemon/watchdog.py WatchdogTimer and its feed   *)
(* thread in api/app.py (SpecWatchdog)                                     *)
(*                                                                         *)
(* Time is counted in ticks, TicksPerSecond to the second; the timeout of  *)
(* 60 s and the feed period of 30 s are scaled to WdTimeout and half of    *)
(* it.  The watchdog thread wakes exactly when its time.sleep(1) ends; the *)
(* feed thread wakes when its time.sleep(30) ends or later.  on_timeout is *)
(* one of the handlers the repository configures, which do not raise.      *)
(* History variables:                                                      *)
(* wd_fed         time of the last feed() or start(), None while stopped   *)
(* wd_since_fed   timeouts counted since then                              *)
(* wd_calls_fed   on_timeout invocations since then                        *)
(* wd_gap         time between the last two feed() calls, None if unknown  *)
(* wd_in_gap      timeouts counted between the last two feed() calls       *)
(* wd_calls_gap   on_timeout invocations between them                      *)
(* wd_loop        time of the last iteration of the daemon main loop       *)
(* wd_since_loop  timeouts counted since then (capped at 1)                 *)
(* wd_started     time of the last start of the watchdog                   *)
(***************************************************************************)

\* Clock resolution.
TicksPerSecond == 2

\* WatchdogTimer(timeout=60): the timeout in ticks.
WdTimeout == 4

\* Last clock reading.
WdMaxTime == 12

\* time.sleep(1) of _watchdog_loop
WdSleep == 1 * TicksPerSecond

\* time.sleep(30) of watchdog_feed_loop: half of the timeout of 60
FeedSleep == WdTimeout \div 2

VARIABLES wd_now, wd_running, wd_last_feed, wd_timeout_count, wd_wake,
          wd_feed_running, wd_feed_wake, wd_fed, wd_since_fed, wd_calls_fed,
          wd_gap, wd_in_gap, wd_calls_gap, wd_loop, wd_since_loop,
          wd_started

wdVars == <<wd_now, wd_running, wd_last_feed, wd_timeout_count, wd_wake,
            wd_feed_running, wd_feed_wake, wd_fed, wd_since_fed, wd_calls_fed,
            wd_gap, wd_in_gap, wd_calls_gap, wd_loop, wd_since_loop,
            wd_started>>

\* WatchdogTimer.__init__ at time 0, not started.
WdInit ==
    /\ wd_now = 0
    /\ wd_running = FALSE
    /\ wd_last_feed = 0
    /\ wd_timeout_count = 0
    /\ wd_wake = 0
    /\ wd_feed_running = FALSE
    /\ wd_feed_wake = 0
    /\ wd_fed = None
    /\ wd_since_fed = 0
    /\ wd_calls_fed = 0
    /\ wd_gap = None
    /\ wd_in_gap = 0
    /\ wd_calls_gap = 0
    /\ wd_loop = 0
    /\ wd_since_loop = 0
    /\ wd_started = 0

\* The breach test of _watchdog_loop that never fires.
watchdog_timed_out_never(now, last_feed, timeout) == FALSE

\* A breach test that fires one tick before the timeout.
watchdog_timed_out_early(now, last_feed, timeout) ==
    now - last_feed >= timeout - 1

\* The breach test of _watchdog_loop: time_since_feed >= self.timeout
watchdog_timed_out(now, last_feed, timeout) == now - last_feed >= timeout

\* One tick passes; the watchdog thread does not oversleep.
WdTick ==
    /\ wd_now < WdMaxTime
    /\ wd_running => wd_now < wd_wake
    /\ wd_now' = wd_now + 1
    /\ UNCHANGED <<wd_running, wd_last_feed, wd_timeout_count, wd_wake,
                   wd_feed_running, wd_feed_wake, wd_fed, wd_since_fed,
                   wd_calls_fed, wd_gap, wd_in_gap, wd_calls_gap, wd_loop,
                   wd_since_loop, wd_started>>

\* start_watchdog_thread: watchdog.start() and the feed thread.
start_watchdog_thread ==
    /\ ~wd_running
    /\ wd_running' = TRUE
    /\ wd_last_feed' = wd_now
    /\ wd_wake' = wd_now
    /\ wd_feed_running' = TRUE
    /\ wd_feed_wake' = wd_now
    /\ wd_fed' = wd_now
    /\ wd_since_fed' = 0
    /\ wd_calls_fed' = 0
    /\ wd_started' = wd_now
    /\ UNCHANGED <<wd_now, wd_timeout_count, wd_gap, wd_in_gap, wd_calls_gap,
                   wd_loop, wd_since_loop>>

\* stop_watchdog_feed: stops the feed thread and the watchdog.
stop_watchdog_feed ==
    /\ wd_running
    /\ wd_running' = FALSE
    /\ wd_feed_running' = FALSE
    /\ wd_fed' = None
    /\ UNCHANGED <<wd_now, wd_last_feed, wd_timeout_count, wd_wake,
                   wd_feed_wake, wd_since_fed, wd_calls_fed, wd_gap, wd_in_gap,
                   wd_calls_gap, wd_loop, wd_since_loop, wd_started>>

\* WatchdogTimer.feed, with the history of the gap it ends.
feed ==
    /\ wd_last_feed' = wd_now
    /\ wd_gap' = IF wd_fed = None THEN None ELSE wd_now - wd_fed
    /\ wd_in_gap' = wd_since_fed
    /\ wd_calls_gap' = wd_calls_fed
    /\ wd_fed' = IF wd_running THEN wd_now ELSE None
    /\ wd_since_fed' = 0
    /\ wd_calls_fed' = 0

\* One iteration of watchdog_feed_loop: feed, then sleep 30 s.
watchdog_feed_loop ==
    /\ wd_feed_running
    /\ wd_now >= wd_feed_wake
    /\ feed
    /\ wd_feed_wake' = wd_now + FeedSleep
    /\ UNCHANGED <<wd_now, wd_running, wd_timeout_count, wd_wake,
                   wd_feed_running, wd_loop, wd_since_loop, wd_started>>

\* POST /api/test/watchdog/feed-manual
test_watchdog_feed_manual ==
    /\ feed
    /\ UNCHANGED <<wd_now, wd_running, wd_timeout_count, wd_wake,
                   wd_feed_running, wd_feed_wake, wd_loop, wd_since_loop, wd_started>>

\* One iteration of _watchdog_loop: the breach test under the lock, the
\* counter, on_timeout, the reset of last_feed, then time.sleep(1).
_watchdog_loop ==
    /\ wd_running
    /\ wd_now = wd_wake
    /\ IF watchdog_timed_out(wd_now, wd_last_feed, WdTimeout)
       THEN /\ wd_timeout_count' = wd_timeout_count + 1
            /\ wd_last_feed' = wd_now
            /\ wd_since_fed' = wd_since_fed + 1
            /\ wd_calls_fed' = wd_calls_fed + 1
            /\ wd_since_loop' = Min(wd_since_loop + 1, 1)
       ELSE UNCHANGED <<wd_timeout_count, wd_last_feed, wd_since_fed,
                        wd_calls_fed, wd_since_loop>>
    /\ wd_wake' = wd_now + WdSleep
    /\ UNCHANGED <<wd_now, wd_running, wd_feed_running, wd_feed_wake, wd_fed,
                   wd_gap, wd_in_gap, wd_calls_gap, wd_loop, wd_started>>

\* One iteration of EFIODeviceDaemon.loop; it does not touch the watchdog.
daemon_loop ==
    /\ wd_loop' = wd_now
    /\ wd_since_loop' = 0
    /\ wd_loop # wd_now \/ wd_since_loop # 0
    /\ UNCHANGED <<wd_now, wd_running, wd_last_feed, wd_timeout_count, wd_wake,
                   wd_feed_running, wd_feed_wake, wd_fed, wd_since_fed,
                   wd_calls_fed, wd_gap, wd_in_gap, wd_calls_gap, wd_started>>

WdNext ==
    \/ WdTick
    \/ start_watchdog_thread
    \/ stop_watchdog_feed
    \/ watchdog_feed_loop
    \/ test_watchdog_feed_manual
    \/ _watchdog_loop
    \/ daemon_loop

C20_StallObserved ==
    (wd_running /\ wd_started <= wd_loop /\ wd_now - wd_loop >= 2 * WdTimeout
        /\ wd_wake > wd_now)
        => wd_since_loop >= 1

\* C39: while feeds follow each other (and the first feed follows start())
\* less than the timeout apart, no timeout is counted and on_timeout is not
\* invoked: a gap between two feeds shorter than the timeout contains none,
\* and whenever one has been counted since the last feed, that feed is at
\* least the timeout old.
C39_NoTimeoutWhileFed ==
    /\ (wd_gap # None /\ wd_gap < WdTimeout)
          => (wd_in_gap = 0 /\ wd_calls_gap = 0)
    /\ (wd_fed # None /\ (wd_since_fed >= 1 \/ wd_calls_fed >= 1))
          => wd_now - wd_fed >= WdTimeout

\* a feed ended a gap one tick shorter than the timeout, across which the
\* watchdog thread made its checks and counted nothing
C39_Witness ==
    /\ wd_running
    /\ wd_gap = WdTimeout - 1
    /\ wd_in_gap = 0 /\ wd_calls_gap = 0
    /\ wd_wake > wd_now
    /\ wd_timeout_count = 0

(***************************************************************************)
(* Health registry: efio_daemon/resilience.py HealthStatus (SpecHealth)    *)
(*                                                                         *)
(* hs_components maps every component name to its stored status, or to     *)
(* Absent while the component has no entry.  hs_overall is what the last   *)
(* get_overall_status() returned, NotAsked once the registry has changed   *)
(* since.                                                                  *)
(***************************************************************************)

HsNames == {"mqtt", "gpio", "can"}
HsStatuses == {"healthy", "degraded", "unhealthy", "unknown"}
Absent == "absent"
NotAsked == "not asked"

VARIABLES hs_components, hs_overall

hsVars == <<hs_components, hs_overall>>

\* HealthStatus.__init__
HsInit ==
    /\ hs_components = [c \in HsNames |-> Absent]
    /\ hs_overall = NotAsked

\* get_overall_status testing for degraded before unhealthy.
get_overall_status_degraded_first(components) ==
    LET statuses == {components[c] : c \in {n \in HsNames : components[n] # Absent}}
    IN  IF statuses = {} THEN "unknown"
        ELSE IF \A s \in statuses : s = "healthy" THEN "healthy"
        ELSE IF \E s \in statuses : s = "degraded" THEN "degraded"
        ELSE "unhealthy"

\* HealthStatus.get_overall_status
get_overall_status(components) ==
    LET statuses == {components[c] : c \in {n \in HsNames : components[n] # Absent}}
    IN  IF statuses = {} THEN "unknown"
        ELSE IF \A s \in statuses : s = "healthy" THEN "healthy"
        ELSE IF \E s \in statuses : s = "unhealthy" THEN "unhealthy"
        ELSE "degraded"

\* HealthStatus.update(component, status)
hs_update ==
    /\ \E c \in HsNames, s \in HsStatuses :
          hs_components' = [hs_components EXCEPT ![c] = s]
    /\ hs_overall' = NotAsked

\* a caller of get_overall_status() (the health routes)
hs_get_overall_status ==
    /\ hs_overall = NotAsked
    /\ hs_overall' = get_overall_status(hs_components)
    /\ UNCHANGED hs_components

HsNext == hs_update \/ hs_get_overall_status

\* the statuses stored in the registry
HsStored == {hs_components[c] : c \in {n \in HsNames : hs_components[n] # Absent}}

num_threads == 3
ops_per_thread == 3
TgThreads == 1..num_threads

VARIABLES tg_do, tg_lock, tg_pc, tg_current, tg_left

tgVars == <<tg_do, tg_lock, tg_pc, tg_current, tg_left>>

\* state.set_do(0, 0), then the threads are created
TgInit ==
    /\ tg_do = 0
    /\ tg_lock = NoThread
    /\ tg_pc = [t \in TgThreads |-> "loop"]
    /\ tg_current = [t \in TgThreads |-> 0]
    /\ tg_left = [t \in TgThreads |-> ops_per_thread]

\* a lock() that excludes nobody
lock_acquired_unguarded(owner, t) == TRUE

\* self._lock.acquire(blocking=True, timeout=1.0) of the RLock succeeds
lock_acquired(owner, t) == owner = NoThread \/ owner = t

\* with state.lock(): entered by thread t
lock_enter(t) ==
    /\ tg_pc[t] = "loop"
    /\ lock_acquired(tg_lock, t)
    /\ tg_lock' = t
    /\ tg_pc' = [tg_pc EXCEPT ![t] = "held"]
    /\ UNCHANGED <<tg_do, tg_current, tg_left>>

\* the acquire of lock() times out: TimeoutError ends the thread
lock_timeout(t) ==
    /\ tg_pc[t] = "loop"
    /\ ~lock_acquired(tg_lock, t)
    /\ tg_pc' = [tg_pc EXCEPT ![t] = "raised"]
    /\ UNCHANGED <<tg_do, tg_lock, tg_current, tg_left>>

\* current = state.get_do(0)
increment_get_do(t) ==
    /\ tg_pc[t] = "held"
    /\ tg_current' = [tg_current EXCEPT ![t] = tg_do]
    /\ tg_pc' = [tg_pc EXCEPT ![t] = "read"]
    /\ UNCHANGED <<tg_do, tg_lock, tg_left>>

\* state.set_do(0, (current + 1) % 2), then lock() releases and the loop
\* goes to its next iteration or ends
increment_set_do(t) ==
    /\ tg_pc[t] = "read"
    /\ tg_do' = (tg_current[t] + 1) % 2
    /\ tg_lock' = IF tg_lock = t THEN NoThread ELSE tg_lock
    /\ tg_left' = [tg_left EXCEPT ![t] = @ - 1]
    /\ tg_pc' = [tg_pc EXCEPT ![t] = IF tg_left[t] = 1 THEN "done" ELSE "loop"]
    /\ UNCHANGED tg_current

TgNext ==
    \/ \E t \in TgThreads : lock_enter(t)
    \/ \E t \in TgThreads : lock_timeout(t)
    \/ \E t \in TgThreads : increment_get_do(t)
    \/ \E t \in TgThreads : increment_set_do(t)

\* toggles performed so far
RECURSIVE TgDone(_)
TgDone(n) == IF n = 0 THEN 0 ELSE (ops_per_thread - tg_left[n]) + TgDone(n - 1)

\* C23: a read-modify-write inside lock() is atomic: while no thread is
\* between its read and its write DO[0] is the number of toggles performed
\* mod 2, so once each of the N threads has toggled K times it is (N*K) mod 2.
C23_ToggleUnderLock ==
    /\ (\A t \in TgThreads : tg_pc[t] # "read")
           => tg_do = TgDone(num_threads) % 2
    /\ (\A t \in TgThreads : tg_pc[t] = "done")
           => tg_do = (num_threads * ops_per_thread) % 2

\* C23 witness: every thread has run all its toggles (DO[0] is then 1 for
\* three threads of three toggles).
C23_Witness ==
    /\ \A t \in TgThreads : tg_pc[t] = "done" /\ tg_left[t] = 0
    /\ tg_do = (num_threads * ops_per_thread) % 2

(***************************************************************************)
(* Shape of the I/O vectors under every write path: ThreadSafeState        *)
(* setters, from_dict and the dict-style wrapper of efio_daemon/state.py   *)
(* (SpecShape)                                                             *)
(*                                                                         *)
(* One caller after the other (every operation runs under the state's      *)
(* lock).  sh_vec[k] is self._di / self._do, sh_raised whether the last    *)
(* operation raised.                                                       *)
(***************************************************************************)

\* <<channel, value>> arguments of the single-channel writes
ShSetArgs == SetArgs \cup {<<3, 0>>, <<2, 1>>, <<1, 1>>}

\* data arguments of from_dict: either key may be missing, a vector may be
\* short or hold a non-binary element
FromDictArgs ==
    [has_di : BOOLEAN, di : SetAllArgs, has_do : BOOLEAN, do : SetAllArgs]

\* values assigned to state["di"] / state["do"]: lists, and an integer
\* (is_list FALSE)
SetItemArgs == [is_list : BOOLEAN, values : SetAllArgs]

VARIABLES sh_vec, sh_raised

shVars == <<sh_vec, sh_raised>>

\* ThreadSafeState.__init__
ShInit ==
    /\ sh_vec = [k \in Kinds |-> <<0, 0, 0, 0>>]
    /\ sh_raised = FALSE

\* set_di / set_do, also reached by state["di"][index] = value
sh_set(k, a) ==
    IF set_valid(a[1], a[2])
    THEN /\ sh_vec' = [sh_vec EXCEPT ![k][a[1] + 1] = a[2]]
         /\ sh_raised' = FALSE
    ELSE /\ sh_raised' = TRUE
         /\ UNCHANGED sh_vec

\* set_di_all / set_do_all
sh_set_all(k, values) ==
    IF set_all_valid(values)
    THEN /\ sh_vec' = [sh_vec EXCEPT ![k] = set_all_assign(sh_vec[k], values)]
         /\ sh_raised' = FALSE
    ELSE /\ sh_raised' = TRUE
         /\ UNCHANGED sh_vec

\* from_dict validation: a vector that is present has four values
from_dict_valid(data) ==
    /\ data.has_di => Len(data.di) = 4
    /\ data.has_do => Len(data.do) = 4

\* from_dict(data)
from_dict(data) ==
    IF from_dict_valid(data)
    THEN /\ sh_vec' = [k \in Kinds |->
                         IF k = "di" /\ data.has_di THEN data.di
                         ELSE IF k = "do" /\ data.has_do THEN data.do
                         ELSE sh_vec[k]]
         /\ sh_raised' = FALSE
    ELSE /\ sh_raised' = TRUE
         /\ UNCHANGED sh_vec

\* StateCompatWrapper.__setitem__(key, value) for key "di" / "do"
wrapper_setitem(k, value) ==
    IF value.is_list
    THEN sh_set_all(k, value.values)
    ELSE /\ sh_raised' = TRUE
         /\ UNCHANGED sh_vec

\* ListProxy.__setitem__(index, value)
proxy_setitem(k, a) == sh_set(k, a)

ShNext ==
    \/ \E k \in Kinds, a \in ShSetArgs : sh_set(k, a)
    \/ \E k \in Kinds, values \in SetAllArgs : sh_set_all(k, values)
    \/ \E data \in FromDictArgs : from_dict(data)
    \/ \E k \in Kinds, value \in SetItemArgs : wrapper_setitem(k, value)
    \/ \E k \in Kinds, a \in ShSetArgs : proxy_setitem(k, a)

\* C24: after any sequence of accepted and rejected operations DI and DO
\* each have exactly four elements and every element is 0 or 1.
C24_FourBinaryChannels ==
    \A k \in Kinds :
        Len(sh_vec[k]) = 4 /\ \A i \in 1..Len(sh_vec[k]) : sh_vec[k][i] \in {0, 1}

(***************************************************************************)
(* A received frame from the controller to MQTT: mcp2515_driver.py         *)
(* read_message and CANMessage, can_manager.py _handle_rx_message,         *)
(* can_mqtt_bridge.py _format_message (SpecFrame)                          *)
(*                                                                         *)
(* fr_frame is the frame in RX buffer 0 (its DLC nibble, RTR bit and the   *)
(* data registers), fr_msg the CANMessage read_message built, fr_log the   *)
(* log entry the manager appended and handed to its subscribers,           *)
(* fr_payload the dlc and data_decimal fields of the JSON the bridge       *)
(* published.  The mapping of the bridge matches the frame's id and uses   *)
(* the json format.                                                        *)
(***************************************************************************)

\* longest frame received in the model (a CAN frame carries up to 8 bytes)
MaxDlc == 3
\* values of a data register
FrBytes == {0, 1}

FrFrames ==
    UNION {[dlc : {n}, rtr : BOOLEAN, data : [1..n -> FrBytes]] : n \in 0..MaxDlc}

NoRxFrame == [dlc |-> 0, rtr |-> FALSE, data |-> <<>>]
NoLogEntry == [dlc |-> 0, data |-> <<>>]

VARIABLES fr_pc, fr_frame, fr_msg, fr_log, fr_payload

frVars == <<fr_pc, fr_frame, fr_msg, fr_log, fr_payload>>

FrInit ==
    /\ fr_pc = "idle"
    /\ fr_frame = NoRxFrame
    /\ fr_msg = NoRxFrame
    /\ fr_log = NoLogEntry
    /\ fr_payload = NoLogEntry

\* data[:n]
py_prefix(data, n) == SubSeq(data, 1, IF n < Len(data) THEN n ELSE Len(data))

\* CANMessage.__init__: data if data else [0] * 8; dlc if dlc else len(data)
CANMessage(data, dlc, rtr) ==
    LET d == IF data # <<>> THEN data ELSE [i \in 1..8 |-> 0]
    IN  [dlc |-> IF dlc # 0 THEN dlc ELSE Len(d), rtr |-> rtr, data |-> d]

\* MCP2515.read_message: the data registers are read unless RTR is set
read_message(frame) ==
    CANMessage(IF ~frame.rtr
               THEN py_prefix(frame.data, IF frame.dlc < 8 THEN frame.dlc ELSE 8)
               ELSE <<>>,
               frame.dlc, frame.rtr)

\* _handle_rx_message: the log entry
log_entry(msg) == [dlc |-> msg.dlc, data |-> py_prefix(msg.data, msg.dlc)]

\* _format_message, format json: "dlc" and "data_decimal"
_format_message(message) == [dlc |-> message.dlc, data |-> message.data]

\* a frame arrives in RX buffer 0
fr_receive ==
    /\ fr_pc \in {"idle", "published"}
    /\ \E f \in FrFrames : fr_frame' = f
    /\ fr_pc' = "available"
    /\ fr_msg' = NoRxFrame /\ fr_log' = NoLogEntry /\ fr_payload' = NoLogEntry

\* _rx_loop: msg = controller.read_message(0)
fr_read_message ==
    /\ fr_pc = "available"
    /\ fr_msg' = read_message(fr_frame)
    /\ fr_pc' = "read"
    /\ UNCHANGED <<fr_frame, fr_log, fr_payload>>

\* _handle_rx_message(msg): message_log.append(log_entry), subscribers
fr_handle_rx_message ==
    /\ fr_pc = "read"
    /\ fr_log' = log_entry(fr_msg)
    /\ fr_pc' = "logged"
    /\ UNCHANGED <<fr_frame, fr_msg, fr_payload>>

\* the bridge, a subscriber: _process_mapping publishes the payload
fr_process_mapping ==
    /\ fr_pc = "logged"
    /\ fr_payload' = _format_message(fr_log)
    /\ fr_pc' = "published"
    /\ UNCHANGED <<fr_frame, fr_msg, fr_log>>

FrNext ==
    \/ fr_receive
    \/ fr_read_message
    \/ fr_handle_rx_message
    \/ fr_process_mapping

\* C25: a received data frame with DLC 0 is logged and handed to the
\* subscribers with dlc = 0 and an empty data list, and published by the
\* bridge with dlc = 0 and an empty data list.
C25_ZeroLengthFrame ==
    (fr_frame.dlc = 0 /\ ~fr_frame.rtr) =>
        /\ fr_pc = "logged" => fr_log = [dlc |-> 0, data |-> <<>>]
        /\ fr_pc = "published" => fr_payload = [dlc |-> 0, data |-> <<>>]

(***************************************************************************)
(* api/modbus_device_routes.py : the threads of one device (SpecThreads)   *)
(*                                                                         *)
(* The poller and liveness threads of one device, thread by thread, with   *)
(* the requests that start and stop them.  A request runs as one step; a   *)
(* thread runs from one test or hardware call to the next.                 *)
(* pt_conn            device_id in active_connections                      *)
(* pt_config          version of the device's stored configuration         *)
(*                    (register list and interval), changed by PUT         *)
(* pt_last_connected  the stored last_connected is not null                *)
(* pt_events          hardware_disconnected events logged, modulo EventMod *)
(* pt_poll[t]         poller thread t: alive while it runs its function,   *)
(*                    cfg the configuration it loaded when it started, reg *)
(*                    the register it reads next, failed whether a read of *)
(*                    its current or last cycle raised                     *)
(* pt_live[t]         liveness thread t and its local failures counter     *)
(* The clock stands at 0 in this specification.                            *)
(***************************************************************************)

PollerThreads == {"p1", "p2"}
LivenessThreads == {"l1", "l2"}
ConfigVersions == {1, 2}
EventMod == 2
\* the register list of each configuration version
ConfigRegisters(v) == IF v = 1 THEN <<"r1", "r2">> ELSE <<"r3", "r4">>

VARIABLES pt_conn, pt_polling_active, pt_liveness_active, pt_breaker,
          pt_config, pt_last_connected, pt_events, pt_poll, pt_live

ptVars == <<pt_conn, pt_polling_active, pt_liveness_active, pt_breaker,
            pt_config, pt_last_connected, pt_events, pt_poll, pt_live>>

NoPollThread == [alive |-> FALSE, pc |-> "test", reg |-> 0, cfg |-> 1, failed |-> FALSE]
NoLiveThread == [alive |-> FALSE, pc |-> "test", failures |-> 0]

\* module state after import; the device is stored with configuration 1
PtInit ==
    /\ pt_conn = FALSE
    /\ pt_polling_active = FALSE
    /\ pt_liveness_active = FALSE
    /\ pt_breaker = CircuitBreaker(default_failure_threshold, default_timeout)
    /\ pt_config = 1
    /\ pt_last_connected = FALSE
    /\ pt_events = 0
    /\ pt_poll = [t \in PollerThreads |-> NoPollThread]
    /\ pt_live = [t \in LivenessThreads |-> NoLiveThread]

\* failures are counted up to the breaker's threshold
PtMayFail == pt_breaker.failure_count < pt_breaker.failure_threshold

\* cleanup_connection that leaves the breaker as it is
cleanup_connection_state_keeps_breaker(b) ==
    /\ pt_conn' = FALSE
    /\ pt_polling_active' = FALSE
    /\ pt_liveness_active' = FALSE
    /\ pt_breaker' = b
    /\ pt_last_connected' = FALSE
    /\ pt_events' = (pt_events + 1) % EventMod

\* cleanup_connection(device_id, reason) when the device's breaker is b
cleanup_connection_state(b) ==
    /\ pt_conn' = FALSE
    /\ pt_polling_active' = FALSE
    /\ pt_liveness_active' = FALSE
    /\ pt_breaker' = reset(b)
    /\ pt_last_connected' = FALSE
    /\ pt_events' = (pt_events + 1) % EventMod

\* start_device_polling: nothing while the flag is set, else the flag is
\* set and a thread started, which loads the stored configuration
start_device_polling ==
    IF pt_polling_active THEN UNCHANGED <<pt_polling_active, pt_poll>>
    ELSE /\ \E t \in PollerThreads : ~pt_poll[t].alive
         /\ pt_polling_active' = TRUE
         /\ LET t == CHOOSE x \in PollerThreads : ~pt_poll[x].alive
            IN  pt_poll' = [pt_poll EXCEPT ![t] =
                    [alive |-> TRUE, pc |-> "test", reg |-> 0,
                     cfg |-> pt_config, failed |-> FALSE]]

\* start_liveness_check
start_liveness_check ==
    IF pt_liveness_active THEN UNCHANGED <<pt_liveness_active, pt_live>>
    ELSE /\ \E t \in LivenessThreads : ~pt_live[t].alive
         /\ pt_liveness_active' = TRUE
         /\ LET t == CHOOSE x \in LivenessThreads : ~pt_live[x].alive
            IN  pt_live' = [pt_live EXCEPT ![t] =
                    [alive |-> TRUE, pc |-> "test", failures |-> 0]]

\* POST /connect: refused while the breaker is open; else the connection
\* is made (last_connected stored, liveness started) or fails
pt_connect_device ==
    /\ pt_breaker.state # OPEN
    /\ \/ /\ pt_breaker' = _on_success(pt_breaker)
          /\ pt_conn' = TRUE
          /\ pt_last_connected' = TRUE
          /\ start_liveness_check
       \/ /\ PtMayFail
          /\ pt_breaker' = _on_failure(pt_breaker, 0)
          /\ UNCHANGED <<pt_conn, pt_last_connected, pt_liveness_active, pt_live>>
    /\ UNCHANGED <<pt_polling_active, pt_config, pt_events, pt_poll>>

\* POST /disconnect of a connected device
pt_disconnect_device ==
    /\ pt_conn
    /\ pt_polling_active' = FALSE
    /\ pt_liveness_active' = FALSE
    /\ pt_conn' = FALSE
    /\ UNCHANGED <<pt_breaker, pt_config, pt_last_connected, pt_events,
                   pt_poll, pt_live>>

\* POST /polling/start of a connected device
pt_start_polling ==
    /\ pt_conn
    /\ start_device_polling
    /\ UNCHANGED <<pt_conn, pt_liveness_active, pt_breaker, pt_config,
                   pt_last_connected, pt_events, pt_live>>

\* POST /polling/stop
pt_stop_polling ==
    /\ pt_polling_active' = FALSE
    /\ UNCHANGED <<pt_conn, pt_liveness_active, pt_breaker, pt_config,
                   pt_last_connected, pt_events, pt_poll, pt_live>>

\* PUT /api/modbus/devices/<id>: the stored configuration is replaced
pt_update_device ==
    /\ \E v \in ConfigVersions : v # pt_config /\ pt_config' = v
    /\ UNCHANGED <<pt_conn, pt_polling_active, pt_liveness_active, pt_breaker,
                   pt_last_connected, pt_events, pt_poll, pt_live>>

\* POST /read or /write whose hardware call raises: _on_failure, then
\* cleanup_connection
pt_read_failure ==
    /\ pt_conn /\ pt_breaker.state # OPEN /\ PtMayFail
    /\ cleanup_connection_state(_on_failure(pt_breaker, 0))
    /\ UNCHANGED <<pt_config, pt_poll, pt_live>>

\* poll_device_registers: the while test after the sleep; a cycle starts
\* with the first register of the thread's configuration
poll_device_registers_test(t) ==
    /\ pt_poll[t].alive /\ pt_poll[t].pc = "test"
    /\ pt_poll' = [pt_poll EXCEPT ![t] =
           IF pt_polling_active
           THEN [@ EXCEPT !.pc = "read", !.reg = 1, !.failed = FALSE]
           ELSE NoPollThread]
    /\ UNCHANGED <<pt_conn, pt_polling_active, pt_liveness_active, pt_breaker,
                   pt_config, pt_last_connected, pt_events, pt_live>>

\* poll_device_registers: the read of one register returns or raises
\* (_on_failure); after the last register the snapshot is logged and
\* _on_success called
poll_device_registers_read(t) ==
    /\ pt_poll[t].alive /\ pt_poll[t].pc = "read"
    /\ \E ok \in (IF PtMayFail THEN BOOLEAN ELSE {TRUE}) :
         LET b == IF ok THEN pt_breaker ELSE _on_failure(pt_breaker, 0)
             f == pt_poll[t].failed \/ ~ok
         IN  IF pt_poll[t].reg < Len(ConfigRegisters(pt_poll[t].cfg))
             THEN /\ pt_breaker' = b
                  /\ pt_poll' = [pt_poll EXCEPT ![t].reg = @ + 1, ![t].failed = f]
             ELSE /\ pt_breaker' = _on_success(b)
                  /\ pt_poll' = [pt_poll EXCEPT ![t].pc = "test", ![t].reg = 0,
                                                ![t].failed = f]
    /\ UNCHANGED <<pt_conn, pt_polling_active, pt_liveness_active, pt_config,
                   pt_last_connected, pt_events, pt_live>>

\* liveness_check_loop: the while test after the sleep and the test
\* device_id not in active_connections
liveness_check_loop_test(t) ==
    /\ pt_live[t].alive /\ pt_live[t].pc = "test"
    /\ pt_live' = [pt_live EXCEPT ![t] =
           IF pt_liveness_active /\ pt_conn THEN [@ EXCEPT !.pc = "lookup"]
           ELSE NoLiveThread]
    /\ UNCHANGED <<pt_conn, pt_polling_active, pt_liveness_active, pt_breaker,
                   pt_config, pt_last_connected, pt_events, pt_poll>>

\* liveness_check_loop: instr = active_connections[device_id]; a KeyError is
\* caught by the outer handler: _on_failure, cleanup_connection, break
liveness_check_loop_lookup(t) ==
    /\ pt_live[t].alive /\ pt_live[t].pc = "lookup"
    /\ IF pt_conn
       THEN /\ pt_live' = [pt_live EXCEPT ![t].pc = "probe"]
            /\ UNCHANGED <<pt_conn, pt_polling_active, pt_liveness_active,
                           pt_breaker, pt_last_connected, pt_events>>
       ELSE /\ PtMayFail
            /\ cleanup_connection_state(_on_failure(pt_breaker, 0))
            /\ pt_live' = [pt_live EXCEPT ![t] = NoLiveThread]
    /\ UNCHANGED <<pt_config, pt_poll>>

\* liveness_check_loop: the read of register 0 returns or raises
liveness_check_loop_probe(t) ==
    /\ pt_live[t].alive /\ pt_live[t].pc = "probe"
    /\ \/ /\ pt_live' = [pt_live EXCEPT ![t].pc = "test", ![t].failures = 0]
          /\ UNCHANGED <<pt_conn, pt_polling_active, pt_liveness_active,
                         pt_breaker, pt_last_connected, pt_events>>
       \/ /\ PtMayFail
          /\ IF pt_live[t].failures + 1 >= LIVENESS_MAX_FAILURES
             THEN /\ cleanup_connection_state(_on_failure(pt_breaker, 0))
                  /\ pt_live' = [pt_live EXCEPT ![t] = NoLiveThread]
             ELSE /\ pt_breaker' = _on_failure(pt_breaker, 0)
                  /\ pt_live' = [pt_live EXCEPT ![t].pc = "test",
                                                ![t].failures = @ + 1]
                  /\ UNCHANGED <<pt_conn, pt_polling_active, pt_liveness_active,
                                 pt_last_connected, pt_events>>
    /\ UNCHANGED <<pt_config, pt_poll>>

PtNext ==
    \/ pt_connect_device
    \/ pt_disconnect_device
    \/ pt_start_polling
    \/ pt_stop_polling
    \/ pt_update_device
    \/ pt_read_failure
    \/ \E t \in PollerThreads : poll_device_registers_test(t)
    \/ \E t \in PollerThreads : poll_device_registers_read(t)
    \/ \E t \in LivenessThreads : liveness_check_loop_test(t)
    \/ \E t \in LivenessThreads : liveness_check_loop_lookup(t)
    \/ \E t \in LivenessThreads : liveness_check_loop_probe(t)

(***************************************************************************)
(* Claims about the threads of a Modbus device                             *)
(***************************************************************************)

\* poller thread t ends a polling cycle on this step
CycleEnds(t) ==
    pt_poll[t].alive /\ pt_poll[t].pc = "read" /\ pt_poll'[t].pc = "test"

\* C26: a failed register read records a failure and the remaining
\* registers are still read; a success is recorded only for a cycle in which
\* every read succeeded, so the end of a cycle with a failed read does not
\* lower the breaker's failure count.
C26_FailuresAccumulate ==
    [][ \A t \in PollerThreads :
          (CycleEnds(t) /\ pt_poll'[t].failed)
             => pt_breaker'.failure_count >= pt_breaker.failure_count ]_ptVars

\* C27: at most one poller thread and at most one liveness thread of the
\* device are running at any time.
C27_OneThreadOfEachKind ==
    /\ Cardinality({t \in PollerThreads : pt_poll[t].alive}) <= 1
    /\ Cardinality({t \in LivenessThreads : pt_live[t].alive}) <= 1

\* C28: every polling cycle that starts after an update of the device's
\* configuration uses the new configuration.
C28_CyclesUseStoredConfig ==
    [][ \A t \in PollerThreads :
          (pt_poll[t].alive /\ pt_poll[t].pc = "test" /\ pt_poll'[t].pc = "read")
             => pt_poll'[t].cfg = pt_config ]_ptVars

\* liveness thread t invokes cleanup_connection on this step
LivenessCleans(t) ==
    pt_live[t].alive /\ ~pt_live'[t].alive /\ pt_events' # pt_events

\* C29: the liveness checker invokes cleanup exactly when three probes in a
\* row have failed: only from a failed probe that follows two failed ones,
\* and a successful probe resets the count.
C29_CleanupAfterThreeFailures ==
    [][ \A t \in LivenessThreads :
          /\ LivenessCleans(t)
                => /\ pt_live[t].pc = "probe"
                   /\ pt_live[t].failures = LIVENESS_MAX_FAILURES - 1
          /\ (pt_live[t].pc = "probe" /\ pt_live'[t].alive
                 /\ pt_live'[t].pc = "test")
                => pt_live'[t].failures \in {0, pt_live[t].failures + 1} ]_ptVars

BlMaxFrames == 2
BlTimes == {1000, 2000, 3000}
BlCanStates == {"none", "configured", "connected"}
BlCanIds == {1, 2}

\* one stored mapping at most; mapping ids are the list positions
BlMapping(enabled, rate) ==
    [can_id |-> 1, enabled |-> enabled, rate_limit_ms |-> rate]
BlStoredConfigs ==
    {<< >>} \cup {<<BlMapping(e, 2000)>> : e \in BOOLEAN}

VARIABLES
    bl_store_mqtt,     \* load_mqtt_config()['enabled'] as stored now
    bl_mqtt_config,    \* self.mqtt_config['enabled'], given at construction
    bl_stored,         \* load_bridge_config()['mappings']
    bl_mappings,       \* self.mappings
    bl_can,            \* what _is_can_connected() would find
    bl_running,        \* self.running
    bl_subscribed,     \* self._on_can_message in can_manager.subscribers
    bl_client,         \* self.mqtt_client is not None
    bl_mqtt_connected, \* self.mqtt_connected
    bl_stats,          \* self.stats
    bl_last_publish,   \* self.last_publish of the mapping
    bl_now,            \* time.time() in ms
    bl_resp,           \* the last answer of start_bridge
    bl_frame,          \* the last frame handed to _on_can_message
    bl_phase           \* history: a frame was missed, then one published

blVars == <<bl_store_mqtt, bl_mqtt_config, bl_stored, bl_mappings, bl_can,
            bl_running, bl_subscribed, bl_client, bl_mqtt_connected,
            bl_stats, bl_last_publish, bl_now, bl_resp, bl_frame, bl_phase>>

\* app.py init_can_mqtt_bridge: CANMQTTBridge(can_manager, load_mqtt_config())
BlInit ==
    /\ bl_store_mqtt \in BOOLEAN
    /\ bl_mqtt_config = bl_store_mqtt
    /\ bl_stored \in BlStoredConfigs
    /\ bl_mappings = << >>
    /\ bl_can \in BlCanStates
    /\ bl_running = FALSE
    /\ bl_subscribed = FALSE
    /\ bl_client = FALSE
    /\ bl_mqtt_connected = FALSE
    /\ bl_stats = [messages_received |-> 0, messages_published |-> 0]
    /\ bl_last_publish = 0
    /\ bl_now = 1000
    /\ bl_resp = [code |-> 0, seq |-> 0, broker |-> "untried", can |-> "none"]
    /\ bl_frame = [can_id |-> 0, ok |-> FALSE, seq |-> 0]
    /\ bl_phase = "fresh"

\* mqtt_routes.py update_mqtt_config: the stored settings change, the bridge
\* keeps the settings it was constructed with
bl_update_mqtt_config(enabled) ==
    /\ bl_store_mqtt' = enabled
    /\ UNCHANGED <<bl_mqtt_config, bl_stored, bl_mappings, bl_can, bl_running,
                   bl_subscribed, bl_client, bl_mqtt_connected, bl_stats,
                   bl_last_publish, bl_now, bl_resp, bl_frame, bl_phase>>

\* can_mqtt_routes.py: the stored mapping list is replaced
bl_save_bridge_config(ms) ==
    /\ bl_stored' = ms
    /\ UNCHANGED <<bl_store_mqtt, bl_mqtt_config, bl_mappings, bl_can,
                   bl_running, bl_subscribed, bl_client, bl_mqtt_connected,
                   bl_stats, bl_last_publish, bl_now, bl_resp, bl_frame,
                   bl_phase>>

\* a CAN device is configured, connected or removed
bl_can_change(c) ==
    /\ bl_can' = c
    /\ UNCHANGED <<bl_store_mqtt, bl_mqtt_config, bl_stored, bl_mappings,
                   bl_running, bl_subscribed, bl_client, bl_mqtt_connected,
                   bl_stats, bl_last_publish, bl_now, bl_resp, bl_frame,
                   bl_phase>>

bl_tick ==
    /\ \E t \in BlTimes :
          /\ t > bl_now
          /\ \A u \in BlTimes : u > bl_now => t <= u
          /\ bl_now' = t
    /\ UNCHANGED <<bl_store_mqtt, bl_mqtt_config, bl_stored, bl_mappings,
                   bl_can, bl_running, bl_subscribed, bl_client,
                   bl_mqtt_connected, bl_stats, bl_last_publish, bl_resp,
                   bl_frame, bl_phase>>

enabled_mappings(ms) == SelectSeq(ms, LAMBDA m : m.enabled)

\* modbus_mqtt_bridge.py start(): also refuses while the CAN bus is down
start_needs_can(running, mappings, mqtt_enabled, can, broker_ok) ==
    /\ ~running
    /\ mappings # << >>
    /\ can = "connected"
    /\ mqtt_enabled /\ broker_ok

\* can_mqtt_bridge.py start(): the value returned; CAN availability only
\* selects a warning
start(running, mappings, mqtt_enabled, can, broker_ok) ==
    /\ ~running
    /\ mappings # << >>
    /\ mqtt_enabled /\ broker_ok

\* can_mqtt_routes.py start_bridge with load_mappings, start and _init_mqtt;
\* broker_ok: mqtt_client.connect returns, otherwise it raises
start_bridge(broker_ok) ==
    LET chosen == enabled_mappings(bl_stored)
        reply(code, broker) ==
            bl_resp' = [code |-> code, seq |-> 1 - bl_resp.seq,
                        broker |-> broker, can |-> bl_can]
        reaches_connect == ~bl_running /\ bl_mqtt_config
    IN  IF ~bl_store_mqtt \/ chosen = << >>
        THEN /\ reply(400, "untried")
             /\ UNCHANGED <<bl_store_mqtt, bl_mqtt_config, bl_stored,
                            bl_mappings, bl_can, bl_running, bl_subscribed,
                            bl_client, bl_mqtt_connected, bl_stats,
                            bl_last_publish, bl_now, bl_frame, bl_phase>>
        ELSE /\ bl_mappings' = chosen
             /\ bl_last_publish' = 0
             /\ bl_client' = (bl_client \/ reaches_connect)
             /\ IF start(bl_running, chosen, bl_mqtt_config, bl_can, broker_ok)
                THEN /\ bl_running' = TRUE
                     /\ bl_subscribed' = TRUE
                     /\ reply(200, "opened")
                ELSE /\ UNCHANGED <<bl_running, bl_subscribed>>
                     /\ reply(500, IF ~reaches_connect THEN "untried"
                                   ELSE IF broker_ok THEN "opened"
                                   ELSE "refused")
             /\ UNCHANGED <<bl_store_mqtt, bl_mqtt_config, bl_stored, bl_can,
                            bl_mqtt_connected, bl_stats, bl_now, bl_frame,
                            bl_phase>>

\* can_mqtt_routes.py stop_bridge with stop(): loop_stop() comes before
\* disconnect(), so the disconnect callback may or may not run
stop_bridge ==
    /\ bl_running
    /\ bl_running' = FALSE
    /\ bl_subscribed' = FALSE
    /\ bl_mqtt_connected' \in {bl_mqtt_connected, FALSE}
    /\ UNCHANGED <<bl_store_mqtt, bl_mqtt_config, bl_stored, bl_mappings,
                   bl_can, bl_client, bl_stats, bl_last_publish, bl_now,
                   bl_resp, bl_frame, bl_phase>>

\* _on_mqtt_connect(rc) on the client's loop thread
_on_mqtt_connect(rc) ==
    /\ bl_running
    /\ bl_mqtt_connected' = (rc = 0)
    /\ UNCHANGED <<bl_store_mqtt, bl_mqtt_config, bl_stored, bl_mappings,
                   bl_can, bl_running, bl_subscribed, bl_client, bl_stats,
                   bl_last_publish, bl_now, bl_resp, bl_frame, bl_phase>>

_on_mqtt_disconnect ==
    /\ bl_running
    /\ bl_mqtt_connected' = FALSE
    /\ UNCHANGED <<bl_store_mqtt, bl_mqtt_config, bl_stored, bl_mappings,
                   bl_can, bl_running, bl_subscribed, bl_client, bl_stats,
                   bl_last_publish, bl_now, bl_resp, bl_frame, bl_phase>>

\* a publish that goes ahead whatever the connection flag says
_publish_to_mqtt_unchecked(client, connected, ok) ==
    client /\ ok

\* _publish_to_mqtt: False without a connected client or when publish raises
_publish_to_mqtt(client, connected, ok) ==
    client /\ connected /\ ok

BlMatches(ms, can_id) ==
    \E i \in 1..Len(ms) : ms[i].enabled /\ ms[i].can_id = can_id

BlPasses(ms) ==
    \A i \in 1..Len(ms) : _should_publish(ms[i], bl_last_publish, bl_now)

\* _on_can_message with _process_mapping, called by the CAN manager for a
\* subscribed bridge; ok: the client's publish returns
_on_can_message(can_id, ok) ==
    /\ bl_subscribed
    /\ bl_stats.messages_received < BlMaxFrames
    /\ bl_frame' = [can_id |-> can_id, ok |-> ok, seq |-> 1 - bl_frame.seq]
    /\ LET matches == BlMatches(bl_mappings, can_id)
           pass == BlPasses(bl_mappings)
           sent == /\ matches /\ pass
                   /\ _publish_to_mqtt(bl_client, bl_mqtt_connected, ok)
       IN  /\ bl_stats' = [bl_stats EXCEPT
                 !.messages_received = @ + 1,
                 !.messages_published = IF sent THEN @ + 1 ELSE @]
           /\ bl_last_publish' = IF sent THEN bl_now ELSE bl_last_publish
           /\ bl_phase' = IF ~bl_mqtt_connected /\ matches THEN "missed"
                          ELSE IF sent /\ bl_phase = "missed" THEN "resumed"
                          ELSE bl_phase
    /\ UNCHANGED <<bl_store_mqtt, bl_mqtt_config, bl_stored, bl_mappings,
                   bl_can, bl_running, bl_subscribed, bl_client,
                   bl_mqtt_connected, bl_now, bl_resp>>

BlNext ==
    \/ \E e \in BOOLEAN : bl_update_mqtt_config(e)
    \/ \E ms \in BlStoredConfigs : bl_save_bridge_config(ms)
    \/ \E c \in BlCanStates : bl_can_change(c)
    \/ bl_tick
    \/ \E broker_ok \in BOOLEAN : start_bridge(broker_ok)
    \/ stop_bridge
    \/ \E rc \in {0, 5} : _on_mqtt_connect(rc)
    \/ _on_mqtt_disconnect
    \/ \E can_id \in BlCanIds, ok \in BOOLEAN : _on_can_message(can_id, ok)

BlStartStep == bl_resp'.seq # bl_resp.seq

BlFrameStep == bl_frame'.seq # bl_frame.seq

\* C31 as stated: a start is refused when MQTT is disabled or no enabled
\* mapping is stored, a refused start leaves the bridge not running and not
\* subscribed, and with MQTT enabled and an enabled mapping every start
\* succeeds whatever the CAN availability.
C31_StartOutcome ==
    [][BlStartStep =>
         IF bl_store_mqtt /\ enabled_mappings(bl_stored) # << >>
         THEN bl_resp'.code = 200 /\ bl_running' /\ bl_subscribed'
         ELSE bl_resp'.code # 200 /\ ~bl_running' /\ ~bl_subscribed']_blVars

\* C31 amended: for a stopped bridge, a start is refused when MQTT is
\* disabled in the stored settings or in the settings the bridge was built
\* with, when no enabled mapping is stored, or when the broker connection
\* cannot be opened; every refused start leaves it not running and not
\* subscribed; in all other cases it starts, whatever the CAN availability.
\* A start asked of a running bridge is answered with an error and leaves it
\* running and subscribed.
C31_StartOutcomeOfStoppedBridge ==
    [][BlStartStep =>
         IF bl_running
         THEN bl_resp'.code # 200 /\ bl_running' /\ bl_subscribed'
         ELSE IF /\ bl_store_mqtt /\ bl_mqtt_config
                 /\ enabled_mappings(bl_stored) # << >>
                 /\ bl_resp'.broker = "opened"
              THEN bl_resp'.code = 200 /\ bl_running' /\ bl_subscribed'
              ELSE bl_resp'.code # 200 /\ ~bl_running' /\ ~bl_subscribed'
      ]_blVars

\* a start that succeeded with no CAN device connected or configured
C31_Witness ==
    /\ bl_resp.code = 200 /\ bl_resp.can = "none"
    /\ bl_running /\ bl_subscribed

\* C32: a frame handled by a running bridge whose MQTT connection is down is
\* counted as received, publishes nothing, leaves the last publish time and
\* the running and subscribed flags alone; the connection callbacks leave the
\* bridge running and subscribed; and with the connection up again a frame
\* that matches an enabled mapping, passes the rate limit and is accepted by
\* the client is published.
C32_MqttDownKeepsBridge ==
    [][/\ (BlFrameStep /\ bl_running /\ ~bl_mqtt_connected) =>
            /\ bl_stats'.messages_received = bl_stats.messages_received + 1
            /\ bl_stats'.messages_published = bl_stats.messages_published
            /\ bl_last_publish' = bl_last_publish
            /\ bl_running' /\ bl_subscribed'
       /\ (bl_running /\ bl_mqtt_connected' # bl_mqtt_connected
             /\ bl_resp' = bl_resp /\ bl_running') =>
            bl_subscribed'
       /\ (/\ BlFrameStep /\ bl_running /\ bl_mqtt_connected
           /\ BlMatches(bl_mappings, bl_frame'.can_id)
           /\ BlPasses(bl_mappings) /\ bl_frame'.ok) =>
            /\ bl_stats'.messages_published = bl_stats.messages_published + 1
            /\ bl_last_publish' = bl_now
      ]_blVars

\* a frame was missed while MQTT was down and a later one was published
C32_Witness ==
    /\ bl_phase = "resumed"
    /\ bl_running /\ bl_mqtt_connected
    /\ bl_stats.messages_published > 0

(***************************************************************************)
(* efio_daemon/daemon.py : the daemon's main loop and _publish_di           *)
(***************************************************************************)

DiChannels == {0, 1}
DiVectors == [DiChannels -> {0, 1}]
republish_every == 50

VARIABLES
    dm_last_di,        \* self.last_di
    dm_state_di,       \* state["di"]
    dm_debug_mqtt,     \* self.debug_mqtt
    dm_loop_count,     \* self.loop_count, kept modulo republish_every
    dm_mqtt_connected, \* self.mqtt_connected
    dm_event           \* history: the last poll or connect and its publishes

dmVars == <<dm_last_di, dm_state_di, dm_debug_mqtt, dm_loop_count,
            dm_mqtt_connected, dm_event>>

DmNoPublish == [c \in DiChannels |-> 0]

DmInit ==
    /\ dm_last_di = [c \in DiChannels |-> 0]
    /\ dm_state_di = [c \in DiChannels |-> 0]
    /\ dm_debug_mqtt \in BOOLEAN
    /\ dm_loop_count = 0
    /\ dm_mqtt_connected = FALSE
    /\ dm_event = [cause |-> "none", before |-> dm_last_di,
                   read |-> dm_last_di, published |-> DmNoPublish]

\* _publish_di: the number of mqtt_client.publish calls it makes; admitted:
\* the MQTT breaker lets the call through
_publish_di(connected, admitted) ==
    IF connected /\ admitted THEN 1 ELSE 0

\* a loop body that republishes on every fiftieth pass whatever debug_mqtt is
loop_publishes_always_republish(val, last, debug, count, connected, admitted) ==
    IF val # last THEN _publish_di(connected, admitted)
    ELSE IF count % republish_every = 0
         THEN _publish_di(connected, admitted)
    ELSE 0

\* loop(): the publishes one channel gets in one pass
loop_publishes(val, last, debug, count, connected, admitted) ==
    IF val # last THEN _publish_di(connected, admitted)
    ELSE IF debug /\ count % republish_every = 0
         THEN _publish_di(connected, admitted)
    ELSE 0

\* one pass of loop() whose read_all_inputs returns di_values
dm_loop_pass(di_values, admitted) ==
    LET count == (dm_loop_count + 1) % republish_every
    IN  /\ dm_loop_count' = count
        /\ dm_event' =
             [cause |-> "poll", before |-> dm_last_di, read |-> di_values,
              published |-> [c \in DiChannels |->
                  loop_publishes(di_values[c], dm_last_di[c], dm_debug_mqtt,
                                 count, dm_mqtt_connected, admitted[c])]]
        /\ dm_last_di' = di_values
        /\ dm_state_di' = di_values
        /\ UNCHANGED <<dm_debug_mqtt, dm_mqtt_connected>>

\* one pass of loop() whose read_all_inputs raises
dm_loop_read_error ==
    /\ dm_loop_count' = (dm_loop_count + 1) % republish_every
    /\ dm_event' = [cause |-> "poll", before |-> dm_last_di,
                    read |-> dm_last_di, published |-> DmNoPublish]
    /\ UNCHANGED <<dm_last_di, dm_state_di, dm_debug_mqtt, dm_mqtt_connected>>

\* _on_mqtt_connect on the client's thread: with rc = 0 the breaker is reset
\* and the stored inputs are published
dm_on_mqtt_connect(rc) ==
    /\ dm_mqtt_connected' = (rc = 0)
    /\ dm_event' = [cause |-> "connect", before |-> dm_last_di,
                    read |-> dm_state_di,
                    published |-> [c \in DiChannels |->
                        IF rc = 0 THEN _publish_di(TRUE, TRUE) ELSE 0]]
    /\ UNCHANGED <<dm_last_di, dm_state_di, dm_debug_mqtt, dm_loop_count>>

dm_on_mqtt_disconnect ==
    /\ dm_mqtt_connected
    /\ dm_mqtt_connected' = FALSE
    /\ UNCHANGED <<dm_last_di, dm_state_di, dm_debug_mqtt, dm_loop_count,
                   dm_event>>

DmNext ==
    \/ \E di_values \in DiVectors, admitted \in [DiChannels -> BOOLEAN] :
          dm_loop_pass(di_values, admitted)
    \/ dm_loop_read_error
    \/ \E rc \in {0, 5} : dm_on_mqtt_connect(rc)
    \/ dm_on_mqtt_disconnect

\* C33: with debug republishing off, a pass of the daemon loop publishes a
\* channel at most once, and not at all when the value read equals the value
\* of the pass before.
C33_OnePublishPerTransition ==
    (dm_event.cause = "poll" /\ ~dm_debug_mqtt) =>
        \A c \in DiChannels :
            /\ dm_event.published[c] <= 1
            /\ dm_event.read[c] = dm_event.before[c] =>
                   dm_event.published[c] = 0

\* a pass at a multiple of republish_every that saw one channel change and
\* published it, and saw the other unchanged
C33_Witness ==
    /\ dm_event.cause = "poll" /\ ~dm_debug_mqtt
    /\ dm_loop_count = 0
    /\ dm_event.read[0] # dm_event.before[0] /\ dm_event.published[0] = 1
    /\ dm_event.read[1] = dm_event.before[1] /\ dm_event.published[1] = 0

(***************************************************************************)
(* efio_daemon/resilience.py : retry_with_backoff                          *)
(* One call of the wrapper, a step per attempt and per sleep.  The         *)
(* parameters are naturals; the wrapped function returns, raises an        *)
(* exception of the configured kind or raises another one.                 *)
(***************************************************************************)

RtMaxRetries == 3      \* max_retries is drawn from 0..RtMaxRetries
RtMaxInitial == 2      \* initial_delay is drawn from 0..RtMaxInitial
RtMaxBase == 2         \* exponential_base is drawn from 0..RtMaxBase
RtMaxCap == 4          \* max_delay is drawn from 0..RtMaxCap
FuncResults == {"returns", "expected_exception", "other_exception"}

VARIABLES
    rt_max_retries, rt_initial_delay, rt_max_delay, rt_exponential_base,
    rt_pc,             \* "call", "sleep", or how the wrapper ended
    rt_attempt,        \* the loop variable
    rt_delay,          \* delay
    rt_last_exception, \* the attempt whose exception is held, None if none
    rt_raised,         \* the attempt whose exception left the wrapper
    rt_calls,          \* history: calls of func
    rt_sleeps          \* history: the arguments of time.sleep, in order

rtVars == <<rt_max_retries, rt_initial_delay, rt_max_delay,
            rt_exponential_base, rt_pc, rt_attempt, rt_delay,
            rt_last_exception, rt_raised, rt_calls, rt_sleeps>>

RtParams == <<rt_max_retries, rt_initial_delay, rt_max_delay,
              rt_exponential_base>>

\* wrapper entry: delay = initial_delay, last_exception = None
RtInit ==
    /\ rt_max_retries \in 0..RtMaxRetries
    /\ rt_initial_delay \in 0..RtMaxInitial
    /\ rt_max_delay \in 0..RtMaxCap
    /\ rt_exponential_base \in 0..RtMaxBase
    /\ rt_pc = "call"
    /\ rt_attempt = 0
    /\ rt_delay = rt_initial_delay
    /\ rt_last_exception = None
    /\ rt_raised = None
    /\ rt_calls = 0
    /\ rt_sleeps = << >>

\* a wait that ignores max_delay
wait_time_uncapped(delay, max_delay) == delay

\* wait_time = min(delay, max_delay)
wait_time(delay, max_delay) == Min(delay, max_delay)

\* one pass of the for loop up to the sleep: func is called and returns,
\* raises the configured kind, or raises another kind
rt_call(result) ==
    /\ rt_pc = "call"
    /\ rt_calls' = rt_calls + 1
    /\ CASE result = "returns" ->
              /\ rt_pc' = "returned"
              /\ UNCHANGED <<rt_last_exception, rt_raised>>
         [] result = "other_exception" ->
              /\ rt_pc' = "propagated"
              /\ rt_raised' = rt_attempt
              /\ UNCHANGED rt_last_exception
         [] result = "expected_exception" ->
              /\ rt_last_exception' = rt_attempt
              /\ IF rt_attempt = rt_max_retries
                 THEN rt_pc' = "exhausted" /\ rt_raised' = rt_attempt
                 ELSE rt_pc' = "sleep" /\ UNCHANGED rt_raised
    /\ UNCHANGED <<RtParams, rt_attempt, rt_delay, rt_sleeps>>

\* time.sleep(wait_time); delay *= exponential_base; next attempt
rt_sleep ==
    /\ rt_pc = "sleep"
    /\ rt_sleeps' = Append(rt_sleeps, wait_time(rt_delay, rt_max_delay))
    /\ rt_delay' = rt_delay * rt_exponential_base
    /\ rt_attempt' = rt_attempt + 1
    /\ rt_pc' = "call"
    /\ UNCHANGED <<RtParams, rt_last_exception, rt_raised, rt_calls>>

RtNext ==
    \/ \E result \in FuncResults : rt_call(result)
    \/ rt_sleep

RECURSIVE RtPower(_, _)
RtPower(b, k) == IF k = 0 THEN 1 ELSE b * RtPower(b, k - 1)

\* C35: the k-th wait (k from 0) is min(initial_delay * base^k, max_delay);
\* a wrapper that ended because every attempt failed with the configured
\* kind made max_retries + 1 calls and max_retries waits and raised the last
\* call's exception; a wrapper that ended by a return or by an exception of
\* another kind ended with that call, with no wait after it, the exception
\* being that call's.
C35_RetrySchedule ==
    /\ \A k \in 0..(Len(rt_sleeps) - 1) :
          rt_sleeps[k + 1] =
              Min(rt_initial_delay * RtPower(rt_exponential_base, k),
                  rt_max_delay)
    /\ rt_calls <= rt_max_retries + 1
    /\ Len(rt_sleeps) <= rt_max_retries
    /\ rt_pc = "exhausted" =>
          /\ rt_calls = rt_max_retries + 1
          /\ Len(rt_sleeps) = rt_max_retries
          /\ rt_raised = rt_max_retries
    /\ rt_pc \in {"returned", "propagated"} =>
          /\ rt_calls = Len(rt_sleeps) + 1
          /\ rt_pc = "propagated" => rt_raised = rt_calls - 1
    /\ rt_pc = "returned" => rt_raised = None
    /\ rt_pc = "call" => rt_calls = Len(rt_sleeps)
    /\ rt_pc = "sleep" => rt_calls = Len(rt_sleeps) + 1

\* every attempt failed, and the cap cut the last wait short
C35_Witness ==
    /\ rt_pc = "exhausted"
    /\ rt_max_retries = RtMaxRetries
    /\ rt_initial_delay * RtPower(rt_exponential_base, rt_max_retries - 1)
          > rt_max_delay
    /\ rt_sleeps[1] < rt_sleeps[rt_max_retries]

(***************************************************************************)
(* Lock order of efio_daemon/io_manager.py (self._gpio_lock, "hw") and     *)
(* efio_daemon/thread_safe_state.py (self._lock, "state").  Both are       *)
(* RLocks.  An operation is the sequence of acquisitions and releases it   *)
(* performs; a thread runs one operation after another.                    *)
(***************************************************************************)

LkLocks == {"hw", "state"}
LkThreads == {1, 2, 3}
LkOps == {"read_all_inputs", "read_all_inputs_degrading", "write_output",
          "write_output_degrading", "reinit_loop", "lock_batch"}

Acq(l) == <<"acquire", l>>
Rel(l) == <<"release", l>>
\* one accessor of ThreadSafeState: with self._lock
Accessor == <<Acq("state"), Rel("state")>>

\* a write_output that updates IOState inside a lock() batch around the
\* hardware write
LkProgramStateFirst(op) ==
    CASE op = "write_output_degrading" ->
             <<Acq("state")>> \o Accessor \o Accessor
                 \o <<Acq("hw")>> \o Accessor \o <<Rel("hw"), Rel("state")>>
      [] op = "lock_batch" -> <<Acq("state")>> \o Accessor \o Accessor
                                  \o <<Rel("state")>>
      [] op = "reinit_loop" -> Accessor
      [] op = "read_all_inputs_degrading" ->
             Accessor \o <<Acq("hw")>> \o Accessor \o <<Rel("hw")>>
                 \o <<Acq("hw"), Rel("hw")>> \o Accessor
      [] OTHER -> Accessor \o <<Acq("hw"), Rel("hw")>> \o Accessor

\* the lock operations of each operation, in program order
LkProgram(op) ==
    CASE op = "read_all_inputs" ->
             \* state["simulation"]; the failure counter reset; state["di"] =
             Accessor \o <<Acq("hw"), Rel("hw")>> \o Accessor
      [] op = "read_all_inputs_degrading" ->
             \* a pin read fails for the fifth time: state["simulation"] = True
             \* inside the hardware lock
             Accessor \o <<Acq("hw")>> \o Accessor \o <<Rel("hw")>>
                 \o <<Acq("hw"), Rel("hw")>> \o Accessor
      [] op = "write_output" ->
             \* state["do"][ch] = value; state["simulation"]; a failed write
             \* below the limit
             Accessor \o Accessor \o <<Acq("hw"), Rel("hw")>>
      [] op = "write_output_degrading" ->
             Accessor \o Accessor
                 \o <<Acq("hw")>> \o Accessor \o <<Rel("hw")>>
      [] op = "reinit_loop" ->
             \* _init_hardware: state["simulation"] = False
             Accessor
      [] op = "lock_batch" ->
             \* with state.lock(): two accessors
             <<Acq("state")>> \o Accessor \o Accessor \o <<Rel("state")>>

VARIABLES
    lk_owner,    \* per lock: the owning thread, NoThread when free
    lk_depth,    \* per lock: the RLock's recursion level
    lk_prog,     \* per thread: the lock operations still to run
    lk_held      \* per thread: the locks it holds, in order of acquisition

lkVars == <<lk_owner, lk_depth, lk_prog, lk_held>>

LkInit ==
    /\ lk_owner = [l \in LkLocks |-> NoThread]
    /\ lk_depth = [l \in LkLocks |-> 0]
    /\ lk_prog = [t \in LkThreads |-> << >>]
    /\ lk_held = [t \in LkThreads |-> << >>]

\* a thread starts an operation
lk_begin(t, op) ==
    /\ lk_prog[t] = << >>
    /\ lk_prog' = [lk_prog EXCEPT ![t] = LkProgram(op)]
    /\ UNCHANGED <<lk_owner, lk_depth, lk_held>>

\* RLock.acquire: free, or owned by the caller
lk_acquire(t) ==
    /\ lk_prog[t] # << >>
    /\ Head(lk_prog[t])[1] = "acquire"
    /\ LET l == Head(lk_prog[t])[2]
       IN  /\ lk_owner[l] \in {NoThread, t}
           /\ lk_owner' = [lk_owner EXCEPT ![l] = t]
           /\ lk_depth' = [lk_depth EXCEPT ![l] = @ + 1]
           /\ lk_held' = [lk_held EXCEPT ![t] = Append(@, l)]
    /\ lk_prog' = [lk_prog EXCEPT ![t] = Tail(@)]

\* RLock.release
lk_release(t) ==
    /\ lk_prog[t] # << >>
    /\ Head(lk_prog[t])[1] = "release"
    /\ LET l == Head(lk_prog[t])[2]
       IN  /\ lk_depth' = [lk_depth EXCEPT ![l] = @ - 1]
           /\ lk_owner' = [lk_owner EXCEPT
                  ![l] = IF lk_depth[l] = 1 THEN NoThread ELSE @]
           /\ lk_held' = [lk_held EXCEPT
                  ![t] = SubSeq(@, 1, Len(@) - 1)]
    /\ lk_prog' = [lk_prog EXCEPT ![t] = Tail(@)]

LkNext ==
    \/ \E t \in LkThreads, op \in LkOps : lk_begin(t, op)
    \/ \E t \in LkThreads : lk_acquire(t)
    \/ \E t \in LkThreads : lk_release(t)

\* thread t is blocked on lock l
LkWaits(t, l) ==
    /\ lk_prog[t] # << >>
    /\ Head(lk_prog[t]) = Acq(l)
    /\ lk_owner[l] \notin {NoThread, t}

LkHolds(t, l) == \E i \in 1..Len(lk_held[t]) : lk_held[t][i] = l

\* C37: no thread asks for or takes the hardware lock while it holds the
\* state lock, and no two threads wait for each other's lock; a thread that
\* holds the state lock is never blocked.
C37_HardwareBeforeState ==
    /\ \A t \in LkThreads :
          /\ \A i, j \in 1..Len(lk_held[t]) :
                (i < j /\ lk_held[t][i] = "state") => lk_held[t][j] # "hw"
          /\ (lk_prog[t] # << >> /\ Head(lk_prog[t]) = Acq("hw"))
                => ~LkHolds(t, "state")
          /\ LkHolds(t, "state") => \A l \in LkLocks : ~LkWaits(t, l)
    /\ ~ \E t1, t2 \in LkThreads, l1, l2 \in LkLocks :
            /\ LkWaits(t1, l1) /\ lk_owner[l1] = t2
            /\ LkWaits(t2, l2) /\ lk_owner[l2] = t1

\* one thread holds the hardware lock and inside it the state lock, a second
\* waits for the hardware lock and a third for the state lock
C37_Witness ==
    \E t1, t2, t3 \in LkThreads :
        /\ lk_held[t1] = <<"hw", "state">>
        /\ LkWaits(t2, "hw")
        /\ LkWaits(t3, "state")

(***************************************************************************)
(* efio_daemon/can_manager.py : the subscriber fan-out of                  *)
(* _handle_rx_message against subscribe and unsubscribe.  The for loop     *)
(* walks self.subscribers with a list iterator, which keeps a position;    *)
(* subscribe and unsubscribe run on other threads and take no lock.        *)
(***************************************************************************)

Callbacks == {"bridge", "broadcast", "other"}

VARIABLES
    fo_subscribers,   \* self.subscribers
    fo_pc,            \* the RX thread: "idle", "notify" or "done"
    fo_index,         \* the list iterator's position
    fo_delivered,     \* history: calls of each callback for the frame
    fo_whole,         \* history: callbacks registered since the frame began
    fo_raised         \* history: a callback raised during this frame

foVars == <<fo_subscribers, fo_pc, fo_index, fo_delivered, fo_whole,
            fo_raised>>

FoRange(s) == {s[i] : i \in 1..Len(s)}

FoInit ==
    /\ fo_subscribers = << >>
    /\ fo_pc = "idle"
    /\ fo_index = 0
    /\ fo_delivered = [c \in Callbacks |-> 0]
    /\ fo_whole = {}
    /\ fo_raised = FALSE

\* list.remove(x): the first occurrence is taken out
FoRemove(s, c) == SelectSeq(s, LAMBDA x : x # c)

\* subscribe(callback)
subscribe(c) ==
    /\ c \notin FoRange(fo_subscribers)
    /\ fo_subscribers' = Append(fo_subscribers, c)
    /\ fo_whole' = fo_whole \ {c}
    /\ UNCHANGED <<fo_pc, fo_index, fo_delivered, fo_raised>>

\* unsubscribe(callback)
unsubscribe(c) ==
    /\ c \in FoRange(fo_subscribers)
    /\ fo_subscribers' = FoRemove(fo_subscribers, c)
    /\ fo_whole' = fo_whole \ {c}
    /\ UNCHANGED <<fo_pc, fo_index, fo_delivered, fo_raised>>

\* _handle_rx_message up to the for statement: iter(self.subscribers)
fo_handle_rx_message ==
    /\ fo_pc \in {"idle", "done"}
    /\ fo_pc' = "notify"
    /\ fo_index' = 0
    /\ fo_delivered' = [c \in Callbacks |-> 0]
    /\ fo_whole' = FoRange(fo_subscribers)
    /\ fo_raised' = FALSE
    /\ UNCHANGED fo_subscribers

\* one pass of the for loop: the iterator yields the element at its
\* position, if there is one, and the callback returns or raises
fo_notify(raises) ==
    /\ fo_pc = "notify"
    /\ IF fo_index < Len(fo_subscribers)
       THEN LET c == fo_subscribers[fo_index + 1]
            IN  /\ fo_delivered' = [fo_delivered EXCEPT ![c] = Min(@ + 1, 2)]
                /\ fo_index' = fo_index + 1
                /\ fo_raised' = (fo_raised \/ raises)
                /\ UNCHANGED fo_pc
       ELSE /\ fo_pc' = "done"
            /\ UNCHANGED <<fo_index, fo_delivered, fo_raised>>
    /\ UNCHANGED <<fo_subscribers, fo_whole>>

FoNext ==
    \/ \E c \in Callbacks : subscribe(c)
    \/ \E c \in Callbacks : unsubscribe(c)
    \/ fo_handle_rx_message
    \/ \E raises \in BOOLEAN : fo_notify(raises)

\* C40: when the fan-out of a frame has ended, every callback that was
\* subscribed during the whole handling of the frame has been called exactly
\* once, and none of them is called twice for the frame.
C40_DeliveredOnce ==
    /\ \A c \in fo_whole : fo_delivered[c] <= 1
    /\ fo_pc = "done" => \A c \in fo_whole : fo_delivered[c] = 1

vars == <<cbVars, ioVars, canVars, mbVars, brVars, gpVars, apVars, wdVars, hsVars, tgVars, shVars, frVars, ptVars, blVars, dmVars, rtVars, lkVars, foVars>>

\* Each specification starts its own subsystem from its initial states and
\* holds the other subsystems at one fixed initial state.
CbFixed == CbInit /\ cb = CircuitBreaker(1, 1)
CanFixed == CanInit /\ can_dev = [d \in Devs |-> CANDevice(1, TRUE, 1)]
BrFixed ==
    /\ BrInit
    /\ br_class = "can_mqtt_bridge"
    /\ br_mapping = [can_id |-> 1, enabled |-> TRUE, publish_on_change |-> TRUE,
                     min_interval_ms |-> 100, rate_limit_ms |-> 0]
GpFixed == GpInit /\ ~gp_simulation
BlFixed ==
    /\ BlInit
    /\ bl_store_mqtt /\ bl_stored = <<BlMapping(TRUE, 2000)>> /\ bl_can = "none"
DmFixed == DmInit /\ ~dm_debug_mqtt
RtFixed ==
    /\ RtInit
    /\ rt_max_retries = 0 /\ rt_initial_delay = 0
    /\ rt_max_delay = 0 /\ rt_exponential_base = 0

InitBreaker == CbInit /\ IoInit /\ CanFixed /\ MbInit /\ BrFixed /\ GpFixed /\ ApInit /\ WdInit /\ HsInit /\ TgInit /\ ShInit /\ FrInit /\ PtInit /\ BlFixed /\ DmFixed /\ RtFixed /\ LkInit /\ FoInit

SpecBreaker == InitBreaker /\ [][CbNext /\ UNCHANGED <<ioVars, canVars, mbVars, brVars, gpVars, apVars, wdVars, hsVars, tgVars, shVars, frVars, ptVars, blVars, dmVars, rtVars, lkVars, foVars>>]_vars

InitState == CbFixed /\ IoInit /\ CanFixed /\ MbInit /\ BrFixed /\ GpFixed /\ ApInit /\ WdInit /\ HsInit /\ TgInit /\ ShInit /\ FrInit /\ PtInit /\ BlFixed /\ DmFixed /\ RtFixed /\ LkInit /\ FoInit

SpecState == InitState /\ [][IoNext /\ UNCHANGED <<cbVars, canVars, mbVars, brVars, gpVars, apVars, wdVars, hsVars, tgVars, shVars, frVars, ptVars, blVars, dmVars, rtVars, lkVars, foVars>>]_vars

InitCan == CbFixed /\ IoInit /\ CanInit /\ MbInit /\ BrFixed /\ GpFixed /\ ApInit /\ WdInit /\ HsInit /\ TgInit /\ ShInit /\ FrInit /\ PtInit /\ BlFixed /\ DmFixed /\ RtFixed /\ LkInit /\ FoInit

SpecCan == InitCan /\ [][CanNext /\ UNCHANGED <<cbVars, ioVars, mbVars, brVars, gpVars, apVars, wdVars, hsVars, tgVars, shVars, frVars, ptVars, blVars, dmVars, rtVars, lkVars, foVars>>]_vars

InitModbus == CbFixed /\ IoInit /\ CanFixed /\ MbInit /\ BrFixed /\ GpFixed /\ ApInit /\ WdInit /\ HsInit /\ TgInit /\ ShInit /\ FrInit /\ PtInit /\ BlFixed /\ DmFixed /\ RtFixed /\ LkInit /\ FoInit

SpecModbus == InitModbus /\ [][MbNext /\ UNCHANGED <<cbVars, ioVars, canVars, brVars, gpVars, apVars, wdVars, hsVars, tgVars, shVars, frVars, ptVars, blVars, dmVars, rtVars, lkVars, foVars>>]_vars

InitBridge == CbFixed /\ IoInit /\ CanFixed /\ MbInit /\ BrInit /\ GpFixed /\ ApInit /\ WdInit /\ HsInit /\ TgInit /\ ShInit /\ FrInit /\ PtInit /\ BlFixed /\ DmFixed /\ RtFixed /\ LkInit /\ FoInit

SpecBridge == InitBridge /\ [][BrNext /\ UNCHANGED <<cbVars, ioVars, canVars, mbVars, gpVars, apVars, wdVars, hsVars, tgVars, shVars, frVars, ptVars, blVars, dmVars, rtVars, lkVars, foVars>>]_vars

InitGpio == CbFixed /\ IoInit /\ CanFixed /\ MbInit /\ BrFixed /\ GpInit /\ ApInit /\ WdInit /\ HsInit /\ TgInit /\ ShInit /\ FrInit /\ PtInit /\ BlFixed /\ DmFixed /\ RtFixed /\ LkInit /\ FoInit

SpecGpio == InitGpio /\ [][GpNext /\ UNCHANGED <<cbVars, ioVars, canVars, mbVars, brVars, apVars, wdVars, hsVars, tgVars, shVars, frVars, ptVars, blVars, dmVars, rtVars, lkVars, foVars>>]_vars

InitApi == CbFixed /\ IoInit /\ CanFixed /\ MbInit /\ BrFixed /\ GpFixed /\ ApInit /\ WdInit /\ HsInit /\ TgInit /\ ShInit /\ FrInit /\ PtInit /\ BlFixed /\ DmFixed /\ RtFixed /\ LkInit /\ FoInit

SpecApi == InitApi /\ [][ApNext /\ UNCHANGED <<cbVars, ioVars, canVars, mbVars, brVars, gpVars, wdVars, hsVars, tgVars, shVars, frVars, ptVars, blVars, dmVars, rtVars, lkVars, foVars>>]_vars

SpecMqtt == InitApi /\ [][MqNext /\ UNCHANGED <<cbVars, ioVars, canVars, mbVars, brVars, gpVars, wdVars, hsVars, tgVars, shVars, frVars, ptVars, blVars, dmVars, rtVars, lkVars, foVars>>]_vars

InitWatchdog == CbFixed /\ IoInit /\ CanFixed /\ MbInit /\ BrFixed /\ GpFixed /\ ApInit /\ WdInit /\ HsInit /\ TgInit /\ ShInit /\ FrInit /\ PtInit /\ BlFixed /\ DmFixed /\ RtFixed /\ LkInit /\ FoInit

SpecWatchdog == InitWatchdog /\ [][WdNext /\ UNCHANGED <<cbVars, ioVars, canVars, mbVars, brVars, gpVars, apVars, hsVars, tgVars, shVars, frVars, ptVars, blVars, dmVars, rtVars, lkVars, foVars>>]_vars

InitHealth == CbFixed /\ IoInit /\ CanFixed /\ MbInit /\ BrFixed /\ GpFixed /\ ApInit /\ WdInit /\ HsInit /\ TgInit /\ ShInit /\ FrInit /\ PtInit /\ BlFixed /\ DmFixed /\ RtFixed /\ LkInit /\ FoInit

SpecHealth == InitHealth /\ [][HsNext /\ UNCHANGED <<cbVars, ioVars, canVars, mbVars, brVars, gpVars, apVars, wdVars, tgVars, shVars, frVars, ptVars, blVars, dmVars, rtVars, lkVars, foVars>>]_vars

InitToggle == InitHealth

SpecToggle == InitToggle /\ [][TgNext /\ UNCHANGED <<cbVars, ioVars, canVars, mbVars, brVars, gpVars, apVars, wdVars, hsVars, shVars, frVars, ptVars, blVars, dmVars, rtVars, lkVars, foVars>>]_vars

InitShape == InitHealth

SpecShape == InitShape /\ [][ShNext /\ UNCHANGED <<cbVars, ioVars, canVars, mbVars, brVars, gpVars, apVars, wdVars, hsVars, tgVars, frVars, ptVars, blVars, dmVars, rtVars, lkVars, foVars>>]_vars

InitFrame == InitHealth

SpecFrame == InitFrame /\ [][FrNext /\ UNCHANGED <<cbVars, ioVars, canVars, mbVars, brVars, gpVars, apVars, wdVars, hsVars, tgVars, shVars, ptVars, blVars, dmVars, rtVars, lkVars, foVars>>]_vars

InitThreads == InitHealth

SpecThreads == InitThreads /\ [][PtNext /\ UNCHANGED <<cbVars, ioVars, canVars, mbVars, brVars, gpVars, apVars, wdVars, hsVars, tgVars, shVars, frVars, blVars, dmVars, rtVars, lkVars, foVars>>]_vars

InitBridgeLife == CbFixed /\ IoInit /\ CanFixed /\ MbInit /\ BrFixed /\ GpFixed /\ ApInit /\ WdInit /\ HsInit /\ TgInit /\ ShInit /\ FrInit /\ PtInit /\ BlInit /\ DmFixed /\ RtFixed /\ LkInit /\ FoInit

SpecBridgeLife == InitBridgeLife /\ [][BlNext /\ UNCHANGED <<cbVars, ioVars, canVars, mbVars, brVars, gpVars, apVars, wdVars, hsVars, tgVars, shVars, frVars, ptVars, dmVars, rtVars, lkVars, foVars>>]_vars

InitDaemon == CbFixed /\ IoInit /\ CanFixed /\ MbInit /\ BrFixed /\ GpFixed /\ ApInit /\ WdInit /\ HsInit /\ TgInit /\ ShInit /\ FrInit /\ PtInit /\ BlFixed /\ DmInit /\ RtFixed /\ LkInit /\ FoInit

SpecDaemon == InitDaemon /\ [][DmNext /\ UNCHANGED <<cbVars, ioVars, canVars, mbVars, brVars, gpVars, apVars, wdVars, hsVars, tgVars, shVars, frVars, ptVars, blVars, rtVars, lkVars, foVars>>]_vars

\* the CAN manager with the device table held at one configuration
InitCanFixed == InitHealth

SpecCanFixed == InitCanFixed /\ [][CanNext /\ UNCHANGED <<cbVars, ioVars, mbVars, brVars, gpVars, apVars, wdVars, hsVars, tgVars, shVars, frVars, ptVars, blVars, dmVars, rtVars, lkVars, foVars>>]_vars

InitRetry == CbFixed /\ IoInit /\ CanFixed /\ MbInit /\ BrFixed /\ GpFixed /\ ApInit /\ WdInit /\ HsInit /\ TgInit /\ ShInit /\ FrInit /\ PtInit /\ BlFixed /\ DmFixed /\ RtInit /\ LkInit /\ FoInit

SpecRetry == InitRetry /\ [][RtNext /\ UNCHANGED <<cbVars, ioVars, canVars, mbVars, brVars, gpVars, apVars, wdVars, hsVars, tgVars, shVars, frVars, ptVars, blVars, dmVars, lkVars, foVars>>]_vars

InitLocks == InitHealth

SpecLocks == InitLocks /\ [][LkNext /\ UNCHANGED <<cbVars, ioVars, canVars, mbVars, brVars, gpVars, apVars, wdVars, hsVars, tgVars, shVars, frVars, ptVars, blVars, dmVars, rtVars, foVars>>]_vars

\* the breaker with direct calls of its handlers besides guarded calls
InitBreakerDirect == InitBreaker

SpecBreakerDirect == InitBreakerDirect /\ [][CbDirectNext /\ UNCHANGED <<ioVars, canVars, mbVars, brVars, gpVars, apVars, wdVars, hsVars, tgVars, shVars, frVars, ptVars, blVars, dmVars, rtVars, lkVars, foVars>>]_vars

InitFanout == InitHealth

SpecFanout == InitFanout /\ [][FoNext /\ UNCHANGED <<cbVars, ioVars, canVars, mbVars, brVars, gpVars, apVars, wdVars, hsVars, tgVars, shVars, frVars, ptVars, blVars, dmVars, rtVars, lkVars>>]_vars

====
